---- MODULE Spec2Model ----
(***************************************************************************)
(* A model of otter's group state (otter/models/interface.py), its error   *)
(* presenter (otter/convergence/errors.py) and its HTTP helpers            *)
(* (otter/util/http.py).                                                   *)
(*                                                                         *)
(* Python values are modelled as follows.  A dict is a function whose      *)
(* DOMAIN is its key set.  A call that raises is a result record whose     *)
(* `raised` field names the exception class ("" when the call returned).   *)
(* A timestamp is the text timestamp.now() formats from the clock.         *)
(***************************************************************************)
EXTENDS Integers, Sequences, FiniteSets, TLC

VARIABLES
    state,          \* the GroupState object (a record of its attributes)
    clock,          \* the instant the injected `now` callable reads
    call,           \* the last GroupState method called: [op, arg]
    raised,         \* the exception class that call raised, "" if none
    ret,            \* what that call returned: << >> for None, <<v>> for v
    ctor_touched,   \* the group_touched argument the constructor was given
    marked,         \* whether mark_executed has been called on the object
    reasons,        \* the list of ErrorReason values given to present_reasons
    presented,      \* the outcome of present_reasons(reasons), once called
    upstream_args,  \* the arguments UpstreamError is constructed with
    upstream,       \* the outcome of UpstreamError(...), once called
    links_args,     \* the arguments and configuration of a links call
    links,          \* the outcome of that call, once made
    group_db,       \* the group store: group id -> the persisted group
    group_db0,      \* the group store as it was when the callers started
    locks,          \* group id -> the caller holding the group's lock
    procs,          \* caller -> its store call and how far it has got
    store_call,     \* the last store call that completed, and its outcome
    buckets,        \* the schedule store: bucket -> the events in it
    fetchers,       \* worker -> its fetch_and_delete call and its result
    policy_db,      \* the policies that exist
    webhook_db,     \* the webhooks that exist, by capability hash
    issued,         \* every capability hash issued so far -> what it was issued for
    capability_call, \* the last webhook_info_by_hash call, and its outcome
    details_calls,  \* what the calls of details() on the UpstreamError returned
    code_call,      \* a call of raise_error_on_code: its arguments and outcome
    walk,           \* a client following the next links of a collection
    cron_call       \* a call of next_cron_occurrence: the time, the entry, the result

gsvars == <<state, clock, call, raised, ret, ctor_touched, marked>>

prvars == <<reasons, presented>>

upvars == <<upstream_args, upstream>>

lkvars == <<links_args, links>>

stvars == <<group_db, group_db0, locks, procs, store_call>>

scvars == <<buckets, fetchers>>

cpvars == <<policy_db, webhook_db, issued, capability_call>>

hlvars == <<details_calls, code_call, walk, cron_call>>

dbvars == <<stvars, scvars, cpvars, hlvars>>

vars == <<gsvars, prvars, upvars, lkvars, dbvars>>

\* the stores, while a specification of another component runs
IdleDb ==
    /\ group_db = << >>
    /\ group_db0 = << >>
    /\ locks = << >>
    /\ procs = << >>
    /\ store_call = << >>
    /\ buckets = << >>
    /\ fetchers = << >>
    /\ policy_db = << >>
    /\ webhook_db = << >>
    /\ issued = << >>
    /\ capability_call = << >>
    /\ details_calls = << >>
    /\ code_call = << >>
    /\ walk = << >>
    /\ cron_call = << >>

----------------------------------------------------------------------------
(* Bounds *)

\* the clock reads instants 1..MaxClock
MaxClock == 2

\* present_reasons is given lists of at most MaxReasons reasons
MaxReasons == 3

\* the collections links are built for have at most MaxItems items
MaxItems == 3

----------------------------------------------------------------------------
(* Python values *)

\* the empty dict {}
EmptyDict == [k \in {} |-> ""]

\* d[k] = v
DictSet(d, k, v) == [x \in (DOMAIN d) \cup {k} |-> IF x = k THEN v ELSE d[x]]

\* del d[k]
DictDel(d, k) == [x \in (DOMAIN d) \ {k} |-> d[x]]

\* None, and a text value, as constructor arguments
PyNone == [type |-> "NoneType", text |-> ""]

PyText(s) == [type |-> "unicode", text |-> s]

\* a byte string, an int, a dict and a list
PyStr(s) == [type |-> "str", text |-> s]

PyInt(n) == [type |-> "int", text |-> ToString(n), n |-> n]

PyDict(items) == [type |-> "dict", items |-> items]

PyList(items) == [type |-> "list", items |-> items]

\* Python truthiness: None, '', 0 and empty containers are false
Truthy(v) ==
    CASE v.type = "NoneType" -> FALSE
      [] v.type = "int" -> v.n # 0
      [] v.type \in {"str", "unicode"} -> v.text # ""
      [] v.type = "dict" -> DOMAIN v.items # {}
      [] v.type = "list" -> v.items # << >>

\* timestamp.MIN, the value the test expects for a group never touched
MIN == "0001-01-01T00:00:00Z"

\* timestamp.now(): the clock's instant formatted as ISO8601 UTC text
Format(n) == "2015-01-01T00:00:" \o (IF n < 10 THEN "0" ELSE "") \o ToString(n) \o "Z"

\* lenient_ascii_text: the argument as text
lenient_ascii_text(v) == v.text

\* the outcome of a function call: it returned `value`, or raised
Return(v) == [raised |-> "", value |-> v]

Raise(exc) == [raised |-> exc, value |-> << >>]

\* a function that has not been called yet
NotCalled == [raised |-> "not called", value |-> << >>]

----------------------------------------------------------------------------
(* ScalingGroupStatus *)

ScalingGroupStatus == {"ACTIVE", "ERROR", "DELETING"}

----------------------------------------------------------------------------
(* GroupState *)

\* mutant: a converter without the fallback to timestamp.MIN
group_touched_convert_no_min(t) == lenient_ascii_text(t)

\* the converter of the group_touched attribute
group_touched_convert(t) == lenient_ascii_text(IF Truthy(t) THEN t ELSE PyText(MIN))

\* the attrs-generated constructor, on the record `a` of its arguments:
\* converters applied, then the attributes set
GroupState(a) ==
    [tenant_id      |-> lenient_ascii_text(a.tenant_id),
     group_id       |-> lenient_ascii_text(a.group_id),
     group_name     |-> lenient_ascii_text(a.group_name),
     active         |-> a.active,
     pending        |-> a.pending,
     group_touched  |-> group_touched_convert(a.group_touched),
     policy_touched |-> a.policy_touched,
     paused         |-> a.paused,
     status         |-> a.status,
     suspended      |-> a.suspended,
     error_reasons  |-> a.error_reasons,
     desired        |-> a.desired]

\* results of a method call on the object `self`
Returned(self, v) == [state |-> self, raised |-> "", ret |-> v, reads |-> 0]

Raised(self, exc) == [state |-> self, raised |-> exc, ret |-> << >>, reads |-> 0]

\* a result whose call read the clock n times
Reading(r, n) == [r EXCEPT !.reads = n]

\* Each method takes `nows`, the values successive calls of self.now()
\* return, and reports how many of them it consumed.

\* mutant: add_job that stores the job in the wrong collection
add_job_into_active(self, job_id, nows) ==
    IF job_id \in DOMAIN self.pending
    THEN Raised(self, "AssertionError")
    ELSE Reading(Returned([self EXCEPT !.active =
                              DictSet(@, job_id, DictSet(EmptyDict, "created", nows[1]))],
                          << >>), 1)

\* mutant: add_active that also leaves the id among the pending jobs
add_active_and_pending(self, server_id, server_info, nows) ==
    IF server_id \in DOMAIN self.active
    THEN Raised(self, "AssertionError")
    ELSE Reading(Returned([self EXCEPT
                              !.active = DictSet(@, server_id,
                                                 IF "created" \in DOMAIN server_info
                                                 THEN server_info
                                                 ELSE DictSet(server_info, "created", nows[1])),
                              !.pending = DictSet(@, server_id,
                                                  DictSet(EmptyDict, "created", nows[1]))],
                          << >>), 1)

\* mutant: remove_active without its assertion
remove_active_unchecked(self, server_id, nows) ==
    Returned([self EXCEPT !.active = DictDel(@, server_id)], << >>)

\* mutant: mark_executed that forgets the policies executed before
mark_executed_forgets_others(self, policy_id, nows) ==
    LET t == nows[1]
    IN  Reading(Returned([self EXCEPT !.policy_touched = DictSet(EmptyDict, policy_id, t),
                                      !.group_touched = t],
                         << >>), 1)

\* mutant: mark_executed that reads the clock once for each assignment
mark_executed_two_reads(self, policy_id, nows) ==
    Reading(Returned([self EXCEPT !.policy_touched = DictSet(@, policy_id, nows[1]),
                                  !.group_touched = nows[2]],
                     << >>), 2)

\* mutant: get_capacity that reports the `desired` attribute
get_capacity_of_desired(self, nows) ==
    Returned(self,
             << [current_capacity |-> Cardinality(DOMAIN self.active),
                 pending_capacity |-> Cardinality(DOMAIN self.pending),
                 desired_capacity |-> self.desired] >>)

\* mutant: add_active that takes the arrival of a server for a recovery and
\* drops the error reasons
add_active_clears_reasons(self, server_id, server_info, nows) ==
    IF server_id \in DOMAIN self.active
    THEN Raised(self, "AssertionError")
    ELSE Reading(Returned([self EXCEPT
                              !.active = DictSet(@, server_id,
                                                 IF "created" \in DOMAIN server_info
                                                 THEN server_info
                                                 ELSE DictSet(server_info, "created", nows[1])),
                              !.error_reasons = << >>],
                          << >>), 1)

\* mutant: get_capacity that stores the capacity it computes as `desired`
get_capacity_sets_desired(self, nows) ==
    Returned([self EXCEPT !.desired = Cardinality(DOMAIN self.active)
                                      + Cardinality(DOMAIN self.pending)],
             << [current_capacity |-> Cardinality(DOMAIN self.active),
                 pending_capacity |-> Cardinality(DOMAIN self.pending),
                 desired_capacity |-> Cardinality(DOMAIN self.active)
                                      + Cardinality(DOMAIN self.pending)] >>)

\* mutant: remove_job that refuses to touch a group that is being deleted
remove_job_refuses_deleting(self, job_id, nows) ==
    IF job_id \notin DOMAIN self.pending \/ self.status = "DELETING"
    THEN Raised(self, "AssertionError")
    ELSE Returned([self EXCEPT !.pending = DictDel(@, job_id)], << >>)

remove_job(self, job_id, nows) ==
    IF job_id \notin DOMAIN self.pending
    THEN Raised(self, "AssertionError")
    ELSE Returned([self EXCEPT !.pending = DictDel(@, job_id)], << >>)

add_job(self, job_id, nows) ==
    IF job_id \in DOMAIN self.pending
    THEN Raised(self, "AssertionError")
    ELSE Reading(Returned([self EXCEPT !.pending =
                              DictSet(@, job_id, DictSet(EmptyDict, "created", nows[1]))],
                          << >>), 1)

\* mutant: the creation time is set whether or not the info has one
setdefault_created_overwrites(server_info, t) == DictSet(server_info, "created", t)

\* server_info.setdefault('created', self.now()): now() is evaluated first
setdefault_created(server_info, t) ==
    IF "created" \in DOMAIN server_info THEN server_info
    ELSE DictSet(server_info, "created", t)

add_active(self, server_id, server_info, nows) ==
    IF server_id \in DOMAIN self.active
    THEN Raised(self, "AssertionError")
    ELSE Reading(Returned([self EXCEPT !.active =
                              DictSet(@, server_id, setdefault_created(server_info, nows[1]))],
                          << >>), 1)

remove_active(self, server_id, nows) ==
    IF server_id \notin DOMAIN self.active
    THEN Raised(self, "AssertionError")
    ELSE Returned([self EXCEPT !.active = DictDel(@, server_id)], << >>)

mark_executed(self, policy_id, nows) ==
    LET t == nows[1]
    IN  Reading(Returned([self EXCEPT !.policy_touched = DictSet(@, policy_id, t),
                                      !.group_touched = t],
                         << >>), 1)

get_capacity(self, nows) ==
    Returned(self,
             << [current_capacity |-> Cardinality(DOMAIN self.active),
                 pending_capacity |-> Cardinality(DOMAIN self.pending),
                 desired_capacity |-> Cardinality(DOMAIN self.active)
                                      + Cardinality(DOMAIN self.pending)] >>)

----------------------------------------------------------------------------
(* The inputs of the GroupState specification *)

\* job ids and server ids are arbitrary text: the same ids may be used as both
JobIds == {"1", "2"}

ServerIds == {"1", "2"}

PolicyIds == {"pid", "p2"}

\* server_info arguments: without and with a creation time of their own
ServerInfos == {DictSet(EmptyDict, "stuff", "here"),
                DictSet(DictSet(EmptyDict, "stuff", "here"), "created", "now")}

\* group_touched arguments: None, '' and a date
TouchedArgs == {PyNone, PyText(""), PyText("date")}

\* (active, pending) arguments with disjoint key sets
StartDicts == {<<EmptyDict, EmptyDict>>,
               <<DictSet(EmptyDict, "1", EmptyDict), EmptyDict>>,
               <<EmptyDict, DictSet(EmptyDict, "1", EmptyDict)>>}

\* (paused, status, suspended, error_reasons, desired) arguments
StartFlags == {<<FALSE, "ACTIVE", FALSE, << >>, 0>>,
               <<TRUE, "ERROR", TRUE, <<"reason">>, 2>>,
               <<FALSE, "DELETING", FALSE, << >>, 1>>}

\* what the next calls of self.now() return: the clock reads `clock` now and
\* has moved on by the time it is read again
Nows == {<<Format(clock), Format(clock + 1)>>}

----------------------------------------------------------------------------
(* The GroupState specification: one object, any sequence of method calls *)

Init ==
    /\ IdleDb
    /\ ctor_touched \in TouchedArgs
    /\ \E d \in StartDicts, f \in StartFlags :
          state = GroupState([tenant_id      |-> PyText("tid"),
                              group_id       |-> PyText("gid"),
                              group_name     |-> PyText("name"),
                              active         |-> d[1],
                              pending        |-> d[2],
                              group_touched  |-> ctor_touched,
                              policy_touched |-> EmptyDict,
                              paused         |-> f[1],
                              status         |-> f[2],
                              suspended      |-> f[3],
                              error_reasons  |-> f[4],
                              desired        |-> f[5]])
    /\ clock = 1
    /\ call = [op |-> "__init__", arg |-> ""]
    /\ raised = ""
    /\ ret = << >>
    /\ marked = FALSE
    /\ reasons = << >>
    /\ presented = NotCalled
    /\ upstream_args = << >>
    /\ upstream = NotCalled
    /\ links_args = << >>
    /\ links = NotCalled

\* the object after a call with result r
Called(op, arg, r) ==
    /\ state' = r.state
    /\ call' = [op |-> op, arg |-> arg, reads |-> r.reads]
    /\ raised' = r.raised
    /\ ret' = r.ret
    /\ UNCHANGED <<clock, ctor_touched, prvars, upvars, lkvars, dbvars>>

RemoveJob ==
    \E j \in JobIds, nows \in Nows :
        /\ Called("remove_job", j, remove_job(state, j, nows))
        /\ UNCHANGED marked

AddJob ==
    \E j \in JobIds, nows \in Nows :
        /\ Called("add_job", j, add_job(state, j, nows))
        /\ UNCHANGED marked

\* the object after a call that was also given the dict `info`, which is
\* recorded when the call returned
CalledWith(op, arg, info, r) ==
    /\ state' = r.state
    /\ call' = [op |-> op, arg |-> arg, reads |-> r.reads,
                info |-> IF r.raised = "" THEN info ELSE EmptyDict]
    /\ raised' = r.raised
    /\ ret' = r.ret
    /\ UNCHANGED <<clock, ctor_touched, prvars, upvars, lkvars, dbvars>>

AddActive ==
    \E s \in ServerIds, info \in ServerInfos, nows \in Nows :
        /\ CalledWith("add_active", s, info, add_active(state, s, info, nows))
        /\ UNCHANGED marked

RemoveActive ==
    \E s \in ServerIds, nows \in Nows :
        /\ Called("remove_active", s, remove_active(state, s, nows))
        /\ UNCHANGED marked

MarkExecuted ==
    \E p \in PolicyIds, nows \in Nows :
        /\ Called("mark_executed", p, mark_executed(state, p, nows))
        /\ marked' = TRUE

GetCapacity ==
    \E nows \in Nows :
        /\ Called("get_capacity", "", get_capacity(state, nows))
        /\ UNCHANGED marked

\* time passes between calls
Tick ==
    /\ clock < MaxClock
    /\ clock' = clock + 1
    /\ call' = [op |-> "tick", arg |-> "", reads |-> 0]
    /\ raised' = ""
    /\ ret' = << >>
    /\ UNCHANGED <<state, ctor_touched, marked, prvars, upvars, lkvars, dbvars>>

Next ==
    \/ RemoveJob
    \/ AddJob
    \/ AddActive
    \/ RemoveActive
    \/ MarkExecuted
    \/ GetCapacity
    \/ Tick

Spec == Init /\ [][Next]_vars

\* (status, error_reasons, desired) arguments the constructor accepts: status
\* is validated to be a NamedConstant, error_reasons is converted to a tuple
\* and not validated, desired is validated to be an int
StartFields == {<<"ACTIVE", << >>, 0>>,
                <<"ERROR", <<"reason">>, 2>>,
                <<"DELETING", << >>, 1>>,
                <<"ERROR", << >>, 0>>,
                <<"ACTIVE", <<"reason">>, 0>>,
                <<"ACTIVE", << >>, -1>>}

\* The GroupState specification over the status, error_reasons and desired
\* arguments: an empty group, any sequence of method calls
InitFields ==
    /\ IdleDb
    /\ ctor_touched = PyNone
    /\ \E f \in StartFields :
          state = GroupState([tenant_id      |-> PyText("tid"),
                              group_id       |-> PyText("gid"),
                              group_name     |-> PyText("name"),
                              active         |-> EmptyDict,
                              pending        |-> EmptyDict,
                              group_touched  |-> ctor_touched,
                              policy_touched |-> EmptyDict,
                              paused         |-> FALSE,
                              status         |-> f[1],
                              suspended      |-> FALSE,
                              error_reasons  |-> f[2],
                              desired        |-> f[3]])
    /\ clock = 1
    /\ call = [op |-> "__init__", arg |-> ""]
    /\ raised = ""
    /\ ret = << >>
    /\ marked = FALSE
    /\ reasons = << >>
    /\ presented = NotCalled
    /\ upstream_args = << >>
    /\ upstream = NotCalled
    /\ links_args = << >>
    /\ links = NotCalled

SpecFields == InitFields /\ [][Next]_vars

----------------------------------------------------------------------------
(* Claims about GroupState, checked under Spec *)

Disjoint(s) == (DOMAIN s.pending) \cap (DOMAIN s.active) = {}

\* the step is a call of method `op` that returned
Succeeded(op) == call'.op = op /\ raised' = ""

\* C1 as stated: whatever ids the calls are given, no id is at once a key of
\* pending and a key of active.
C1_AlwaysDisjoint == Disjoint(state)

\* a successful add of an id that the other collection holds at the call
SharedIdAdded ==
    \/ Succeeded("add_job") /\ call'.arg \in DOMAIN state.active
    \/ Succeeded("add_active") /\ call'.arg \in DOMAIN state.pending

\* C1 as amended: a call keeps pending and active disjoint unless it is a
\* successful add_job of an id that is an active server id at the call, or a
\* successful add_active of an id that is a pending job id at the call.
C1_DisjointUnlessSharedId ==
    [][(Disjoint(state) /\ ~SharedIdAdded) => Disjoint(state')]_vars

C1_Witness ==
    /\ call.op = "add_active" /\ raised = ""
    /\ DOMAIN state.pending = {"2"}
    /\ DOMAIN state.active = {"1"}

\* C2: a successful add_job/remove_job adds/removes exactly its id to/from the
\* keys of pending and leaves active as it was; a successful
\* add_active/remove_active does the same to active and leaves pending as it
\* was.  (Over a sequence of calls: initial keys plus added minus removed.)
C2_NetAdditions ==
    [][/\ Succeeded("add_job") =>
            /\ DOMAIN state'.pending = (DOMAIN state.pending) \cup {call'.arg}
            /\ state'.active = state.active
       /\ Succeeded("remove_job") =>
            /\ DOMAIN state'.pending = (DOMAIN state.pending) \ {call'.arg}
            /\ state'.active = state.active
       /\ Succeeded("add_active") =>
            /\ DOMAIN state'.active = (DOMAIN state.active) \cup {call'.arg}
            /\ state'.pending = state.pending
       /\ Succeeded("remove_active") =>
            /\ DOMAIN state'.active = (DOMAIN state.active) \ {call'.arg}
            /\ state'.pending = state.pending]_vars

C2_Witness ==
    /\ call.op = "add_job" /\ raised = ""
    /\ DOMAIN state.pending = {"1", "2"}
    /\ DOMAIN state.active = {"2"}

\* the step is a call whose assertion does not hold of the object it is made on
AssertionFails ==
    \/ call'.op = "add_job" /\ call'.arg \in DOMAIN state.pending
    \/ call'.op = "remove_job" /\ call'.arg \notin DOMAIN state.pending
    \/ call'.op = "add_active" /\ call'.arg \in DOMAIN state.active
    \/ call'.op = "remove_active" /\ call'.arg \notin DOMAIN state.active

\* C3: add_job of a pending id, remove_job of an id not pending, add_active of
\* an active id and remove_active of an id not active raise AssertionError and
\* leave every attribute of the object as it was.
C3_FailedCallChangesNothing ==
    [][AssertionFails => (raised' = "AssertionError" /\ state' = state)]_vars

C3_Witness ==
    /\ call.op = "add_active" /\ raised = "AssertionError"
    /\ DOMAIN state.active = {"1", "2"}
    /\ DOMAIN state.pending = {"1"}

\* C4: mark_executed(p) reads the clock once and leaves both
\* policy_touched[p] and group_touched at the value read.
C4_TouchedTogether ==
    call.op = "mark_executed" =>
        /\ raised = ""
        /\ call.reads = 1
        /\ call.arg \in DOMAIN state.policy_touched
        /\ state.policy_touched[call.arg] = Format(clock)
        /\ state.group_touched = state.policy_touched[call.arg]

C4_Witness ==
    /\ call.op = "mark_executed" /\ call.arg = "p2"
    /\ clock = 2
    /\ DOMAIN state.policy_touched = {"pid", "p2"}
    /\ state.policy_touched["pid"] = Format(1)
    /\ state.group_touched = Format(2)

\* C5: until the first mark_executed, an object constructed with
\* group_touched None has group_touched '0001-01-01T00:00:00Z' and one
\* constructed with a non-empty group_touched has the value it was given.
C5_SentinelUntilExecuted ==
    ~marked =>
        /\ ctor_touched = PyNone => state.group_touched = "0001-01-01T00:00:00Z"
        /\ Truthy(ctor_touched) => state.group_touched = ctor_touched.text

C5_Witness ==
    /\ ctor_touched = PyNone /\ ~marked
    /\ call.op = "remove_active" /\ raised = ""
    /\ clock = 2
    /\ state.group_touched = "0001-01-01T00:00:00Z"

\* C6: get_capacity returns current_capacity = |active|, pending_capacity =
\* |pending| and desired_capacity = |active| + |pending|, whatever `desired`
\* is, and changes no attribute of the object.
C6_Capacity ==
    [][call'.op = "get_capacity" =>
        /\ raised' = ""
        /\ state' = state
        /\ ret' = << [current_capacity |-> Cardinality(DOMAIN state.active),
                      pending_capacity |-> Cardinality(DOMAIN state.pending),
                      desired_capacity |-> Cardinality(DOMAIN state.active)
                                           + Cardinality(DOMAIN state.pending)] >>]_vars

C6_Witness ==
    /\ call.op = "get_capacity"
    /\ ret[1].current_capacity = 2
    /\ ret[1].pending_capacity = 1
    /\ ret[1].desired_capacity = 3
    /\ state.desired = 0

----------------------------------------------------------------------------
(* otter/convergence/errors.py: present_reasons *)

\* An ErrorReason is a record [tag, exc, lb_id]: the variant's tag and, for
\* the Exception variant, the class and lb_id of the exception in exc_info[1].
ExceptionReason(exc, lb_id) == [tag |-> "Exception", exc |-> exc, lb_id |-> lb_id]

OtherReason(tag) == [tag |-> tag, exc |-> "", lb_id |-> ""]

\* "...: %s" % (exception.lb_id,)
PercentS(fmt, lb_id) == PyText(fmt \o lb_id)

_present_no_such_clb_error(exception) ==
    PercentS("Cloud Load Balancer does not exist: ", exception.lb_id)

_present_clb_deleted_error(exception) ==
    PercentS("Cloud Load Balancer is currently being deleted: ", exception.lb_id)

\* singledispatch on the exception's class; the default returns None
_present_exception(exception) ==
    CASE exception.exc = "NoSuchCLBError" -> _present_no_such_clb_error(exception)
      [] exception.exc = "CLBDeletedError" -> _present_clb_deleted_error(exception)
      [] OTHER -> PyNone

\* the @match(ErrorReason) class: the Exception case, and the wildcard
_present_reason(reason) ==
    IF reason.tag = "Exception" THEN _present_exception(reason) ELSE PyNone

\* a Python function of `params` positional parameters that returns `returns`
PyLambda(params, returns) == [params |-> params, returns |-> returns]

\* calling it with nargs positional arguments
PyApply(fn, nargs) ==
    IF fn.params = nargs THEN Return(fn.returns) ELSE Raise("TypeError")

\* Python 2 filter(function, list): function(item) is called for every item,
\* and the items for which it returned a true value are kept
PyFilter(fn, items) ==
    IF \E i \in 1..Len(items) : PyApply(fn, 1).raised # ""
    THEN Raise("TypeError")
    ELSE Return(SelectSeq(items, LAMBDA item : Truthy(PyApply(fn, 1).value)))

\* filter(lambda: None, map(_present_reason, reasons))
present_reasons(rs) ==
    PyFilter(PyLambda(0, PyNone), [i \in 1..Len(rs) |-> _present_reason(rs[i])])

\* the reasons present_reasons is given
LbIds == {"42", "7"}

Reasons ==
    {ExceptionReason(e, x) : e \in {"NoSuchCLBError", "CLBDeletedError"}, x \in LbIds}
    \cup {ExceptionReason("ValueError", ""), OtherReason("String")}

ReasonLists == UNION {[1..n -> Reasons] : n \in 0..MaxReasons}

\* The present_reasons specification: one call on a list of reasons
InitErrors ==
    /\ IdleDb
    /\ reasons \in ReasonLists
    /\ presented = NotCalled
    /\ state = << >>
    /\ clock = 0
    /\ call = << >>
    /\ raised = ""
    /\ ret = << >>
    /\ ctor_touched = PyNone
    /\ marked = FALSE
    /\ upstream_args = << >>
    /\ upstream = NotCalled
    /\ links_args = << >>
    /\ links = NotCalled

PresentReasons ==
    /\ presented = NotCalled
    /\ presented' = present_reasons(reasons)
    /\ UNCHANGED <<reasons, gsvars, upvars, lkvars, dbvars>>

NextErrors == PresentReasons

SpecErrors == InitErrors /\ [][NextErrors]_vars

----------------------------------------------------------------------------
(* Claims about present_reasons, checked under SpecErrors *)

\* the message the error presenter is to give for a reason, << >> if none
MessageOf(reason) ==
    IF reason.tag = "Exception" /\ reason.exc = "NoSuchCLBError"
    THEN <<PyText("Cloud Load Balancer does not exist: " \o reason.lb_id)>>
    ELSE IF reason.tag = "Exception" /\ reason.exc = "CLBDeletedError"
    THEN <<PyText("Cloud Load Balancer is currently being deleted: " \o reason.lb_id)>>
    ELSE << >>

RECURSIVE MessagesOf(_)
MessagesOf(rs) ==
    IF rs = << >> THEN << >> ELSE MessageOf(Head(rs)) \o MessagesOf(Tail(rs))

\* C7: present_reasons returns, for the NoSuchCLBError and CLBDeletedError
\* reasons of its input, their messages, in the order of the input.
C7_PresentsCLBReasons ==
    (presented # NotCalled /\ MessagesOf(reasons) # << >>) =>
        /\ presented.raised = ""
        /\ SelectSeq(presented.value, Truthy) = MessagesOf(reasons)

\* C8: present_reasons raises for no input, and its result has no None entry
\* and exactly one entry for each presentable reason of the input.
C8_FiltersOtherReasons ==
    presented # NotCalled =>
        /\ presented.raised = ""
        /\ \A i \in 1..Len(presented.value) : presented.value[i] # PyNone
        /\ Len(presented.value) = Len(MessagesOf(reasons))

----------------------------------------------------------------------------
(* otter/util/http.py: APIError and UpstreamError *)

\* texts with a character outside ASCII (written here with the code point)
NonAsciiTexts == {"caf(U+00E9)"}

IsAscii(s) == s \notin NonAsciiTexts

\* json.loads on the response bodies considered: what each parses to.  Text
\* in a parsed document is unicode.
JsonDocuments ==
    ("<html>Bad Gateway</html>" :> Raise("ValueError"))
    @@ ("[]" :> Return(PyList(<< >>)))
    @@ ("\"oops\"" :> Return(PyText("oops")))
    @@ ("{}" :> Return(PyDict(EmptyDict)))
    @@ ("{\"badRequest\": \"oops\"}"
            :> Return(PyDict("badRequest" :> PyText("oops"))))
    @@ ("{\"badRequest\": {\"code\": 400}}"
            :> Return(PyDict("badRequest" :> PyDict("code" :> PyInt(400)))))
    @@ ("{\"badRequest\": {\"message\": \"Invalid\"}}"
            :> Return(PyDict("badRequest" :> PyDict("message" :> PyText("Invalid")))))
    @@ ("{\"itemNotFound\": {\"message\": \"gone\", \"code\": 404}}"
            :> Return(PyDict("itemNotFound" :>
                   PyDict(("message" :> PyText("gone")) @@ ("code" :> PyInt(404))))))
    @@ ("{\"badRequest\": {\"message\": \"caf\\u00e9\"}}"
            :> Return(PyDict("badRequest" :> PyDict("message" :> PyText("caf(U+00E9)")))))

\* json.loads(body): None is not a string (TypeError)
json_loads(body) ==
    IF body.type = "NoneType" THEN Raise("TypeError") ELSE JsonDocuments[body.text]

\* str(v) of a Python value
PyToStr(v) ==
    CASE v.type = "NoneType" -> "None"
      [] v.type \in {"str", "unicode", "int"} -> v.text
      [] OTHER -> "<" \o v.type \o ">"

\* '{} - {}'.format(a, b) on a byte-string template (Python 2): a unicode
\* argument is encoded with the ascii codec, which raises on any other character
FormatDash(a, b) ==
    IF \E v \in {a, b} : v.type = "unicode" /\ ~IsAscii(v.text)
    THEN Raise("UnicodeEncodeError")
    ELSE Return(PyToStr(a) \o " - " \o PyToStr(b))

\* APIError(code, body, headers) wrapped in a Failure, and a Failure of
\* another exception; `str` is str(failure)
APIErrorFailure(code, body) ==
    [type |-> "APIError", code |-> PyInt(code), body |-> body, headers |-> PyNone,
     str |-> "[Failure instance: APIError]"]

OtherFailure(type, text) ==
    [type |-> type, code |-> PyNone, body |-> PyNone, headers |-> PyNone, str |-> text]

\* failure.check(APIError)
check_APIError(error) == error.type = "APIError"

\* UpstreamError._parse_message: the value self.apierr_message is left with
_parse_message(body) ==
    LET CouldNotParse == PyStr("Could not parse API error body")
        loaded == json_loads(body)
    IN  IF loaded.raised # "" THEN CouldNotParse
        ELSE IF loaded.value.type # "dict" THEN CouldNotParse           \* no .keys()
        ELSE IF DOMAIN loaded.value.items = {} THEN CouldNotParse       \* keys()[0]
        ELSE LET inner == loaded.value.items[CHOOSE k \in DOMAIN loaded.value.items : TRUE]
             IN  IF inner.type # "dict" THEN CouldNotParse              \* inner['message']
                 ELSE IF "message" \notin DOMAIN inner.items THEN CouldNotParse
                 ELSE inner.items["message"]

\* UpstreamError.__init__ on the record `a` of its arguments: the exception
\* object, or what the constructor raised
UpstreamError(a) ==
    LET self == [error |-> a.error, system |-> a.system, operation |-> a.operation,
                 url |-> a.url, apierr_message |-> PyNone]
        msg == a.system \o " error: "
    IN  IF check_APIError(a.error)
        THEN LET parsed == [self EXCEPT !.apierr_message = _parse_message(a.error.body)]
                 formatted == FormatDash(a.error.code, parsed.apierr_message)
             IN  IF formatted.raised # "" THEN Raise(formatted.raised)
                 ELSE Return([self |-> parsed, message |-> msg \o formatted.value])
        ELSE Return([self |-> self, message |-> msg \o a.error.str])

\* self.__dict__ of an UpstreamError: its attributes by name
InstanceDict(self) ==
    [k \in {"error", "system", "operation", "url", "apierr_message"} |->
        CASE k = "error" -> self.error
          [] k = "system" -> self.system
          [] k = "operation" -> self.operation
          [] k = "url" -> self.url
          [] k = "apierr_message" -> self.apierr_message]

\* d.update(other)
DictUpdate(d, other) ==
    [k \in (DOMAIN d) \cup (DOMAIN other) |-> IF k \in DOMAIN other THEN other[k] ELSE d[k]]

\* mutant: details() that leaves the wrapped error in the copy
details_with_error(self) ==
    LET d == InstanceDict(self)
    IN  [self |-> self,
         ret |-> IF check_APIError(self.error)
                 THEN DictUpdate(d, [code |-> self.error.code, body |-> self.error.body,
                                     headers |-> self.error.headers])
                 ELSE d]

\* UpstreamError.details(): the object after the call, and the dict returned
details(self) ==
    LET d == DictDel(InstanceDict(self), "error")
    IN  [self |-> self,
         ret |-> IF check_APIError(self.error)
                 THEN DictUpdate(d, [code |-> self.error.code, body |-> self.error.body,
                                     headers |-> self.error.headers])
                 ELSE d]

\* wrap_upstream_error(f, system, operation, url): raise UpstreamError(...),
\* or what its constructor raised
wrap_upstream_error(f, system, operation, url) ==
    LET e == UpstreamError([error |-> f, system |-> system, operation |-> operation,
                            url |-> url])
    IN  IF e.raised # "" THEN Raise(e.raised)
        ELSE [raised |-> "UpstreamError", value |-> e.value]

\* raise_error_on_code(failure, code, error, system, operation, url):
\* failure.trap(APIError) raises the failure when it is not an APIError
raise_error_on_code(failure, code, error, system, operation, url) ==
    IF ~check_APIError(failure) THEN [raised |-> failure.type, value |-> failure]
    ELSE IF failure.code = code THEN Raise(error)
    ELSE wrap_upstream_error(failure, system, operation, url)

\* the arguments UpstreamError is constructed with
Bodies == {PyNone} \cup {PyStr(raw) : raw \in DOMAIN JsonDocuments}

Failures ==
    {APIErrorFailure(code, body) : code \in {400, 404}, body \in Bodies}
    \cup {OtherFailure("ConnectionRefusedError", "[Failure instance: refused]"),
          OtherFailure("ValueError", "[Failure instance: bad value]")}

UpstreamArgs ==
    [error : Failures, system : {"nova", "clb"}, operation : {"server-create"},
     url : {PyNone, PyStr("http://nova.example/v2")}]

\* The UpstreamError specification: one construction
InitUpstream ==
    /\ IdleDb
    /\ upstream_args \in UpstreamArgs
    /\ upstream = NotCalled
    /\ links_args = << >>
    /\ links = NotCalled
    /\ reasons = << >>
    /\ presented = NotCalled
    /\ state = << >>
    /\ clock = 0
    /\ call = << >>
    /\ raised = ""
    /\ ret = << >>
    /\ ctor_touched = PyNone
    /\ marked = FALSE

ConstructUpstreamError ==
    /\ upstream = NotCalled
    /\ upstream' = UpstreamError(upstream_args)
    /\ UNCHANGED <<upstream_args, gsvars, prvars, lkvars, dbvars>>

\* details() is called on the UpstreamError constructed, up to twice
CallDetails ==
    /\ upstream # NotCalled
    /\ upstream.raised = ""
    /\ Len(details_calls) < 2
    /\ LET r == details(upstream.value.self)
       IN  /\ upstream' = [upstream EXCEPT !.value.self = r.self]
           /\ details_calls' = Append(details_calls, r.ret)
    /\ UNCHANGED <<upstream_args, code_call, walk, cron_call,
                   gsvars, prvars, lkvars, stvars, scvars, cpvars>>

\* the codes and the error raise_error_on_code is given
ExpectedCodes == {404, 500}

\* raise_error_on_code is called, once, on the failure of upstream_args
CallRaiseErrorOnCode ==
    /\ code_call = << >>
    /\ \E code \in ExpectedCodes, error \in {"NoSuchServerError"} :
          code_call' = [code |-> code, error |-> error,
                        outcome |-> raise_error_on_code(upstream_args.error, PyInt(code),
                                                        error, upstream_args.system,
                                                        upstream_args.operation,
                                                        upstream_args.url)]
    /\ UNCHANGED <<upstream_args, upstream, details_calls, walk, cron_call,
                   gsvars, prvars, lkvars, stvars, scvars, cpvars>>

NextUpstream ==
    \/ ConstructUpstreamError
    \/ CallDetails
    \/ CallRaiseErrorOnCode

SpecUpstream == InitUpstream /\ [][NextUpstream]_vars

----------------------------------------------------------------------------
(* Claims about UpstreamError, checked under SpecUpstream *)

\* the message m of a body that is a JSON object {kind: {message: m}}
\* (the inner object may have other keys), << >> for any other body
MessageInBody(body) ==
    IF body.type = "NoneType" \/ JsonDocuments[body.text].raised # "" THEN << >>
    ELSE LET v == JsonDocuments[body.text].value
         IN  IF v.type = "dict" /\ Cardinality(DOMAIN v.items) = 1
                /\ \A k \in DOMAIN v.items :
                      v.items[k].type = "dict" /\ "message" \in DOMAIN v.items[k].items
             THEN LET k == CHOOSE k \in DOMAIN v.items : TRUE
                  IN  <<v.items[k].items["message"]>>
             ELSE << >>

\* C9: constructing UpstreamError never raises because of the body; for an
\* APIError whose body is {kind: {message: m}}, apierr_message = m and the
\* message is '<system> error: <code> - m'; for an APIError with any other
\* body, apierr_message is 'Could not parse API error body'; for a failure
\* that is not an APIError, apierr_message is None and the message is
\* '<system> error: ' followed by the failure's text.
C9_MessageParsedBestEffort ==
    upstream # NotCalled =>
        LET a == upstream_args
            m == MessageInBody(a.error.body)
        IN  /\ upstream.raised = ""
            /\ (a.error.type = "APIError" /\ m # << >>) =>
                  /\ upstream.value.self.apierr_message = m[1]
                  /\ upstream.value.message =
                        a.system \o " error: " \o a.error.code.text \o " - " \o m[1].text
            /\ (a.error.type = "APIError" /\ m = << >>) =>
                  upstream.value.self.apierr_message.text = "Could not parse API error body"
            /\ a.error.type # "APIError" =>
                  /\ upstream.value.self.apierr_message = PyNone
                  /\ upstream.value.message = a.system \o " error: " \o a.error.str

----------------------------------------------------------------------------
(* otter/util/http.py: links *)

\* the default pagination limit
DefaultLimit == 100

\* s.rstrip('/')
RECURSIVE rstrip_slash(_)
rstrip_slash(s) ==
    IF Len(s) > 0 /\ SubSeq(s, Len(s), Len(s)) = "/"
    THEN rstrip_slash(SubSeq(s, 1, Len(s) - 1))
    ELSE s

\* urllib.quote(s): '/' and the unreserved characters are kept, any other
\* character is percent-encoded (of those, the ids considered hold ' ' and ':')
RECURSIVE quote(_)
quote(s) ==
    IF Len(s) = 0 THEN ""
    ELSE LET c == SubSeq(s, 1, 1)
         IN  (CASE c = " " -> "%20" [] c = ":" -> "%3A" [] OTHER -> c)
             \o quote(SubSeq(s, 2, Len(s)))

\* '/'.join(parts)
RECURSIVE join_slash(_)
join_slash(parts) ==
    IF Len(parts) = 0 THEN ""
    ELSE IF Len(parts) = 1 THEN parts[1]
    ELSE parts[1] \o "/" \o join_slash(Tail(parts))

\* mutant: the trailing '/' of the uri is kept
append_segments_no_rstrip(uri, segments) ==
    join_slash(<<uri>> \o [i \in 1..Len(segments) |-> quote(segments[i])])

\* append_segments(uri, *segments)
append_segments(uri, segments) ==
    join_slash(<<rstrip_slash(uri)>> \o [i \in 1..Len(segments) |-> quote(segments[i])])

\* mutant: the closing '' appended whatever the last segment
get_autoscale_links_always_appends(a, config) ==
    LET api == "v" \o a.api_version
        base == <<config.url_root, api, a.tenant_id, "groups">>
        ids == IF a.group_id = PyNone THEN << >>
               ELSE <<a.group_id.text>> \o
                    (IF a.policy_id = PyNone THEN << >>
                     ELSE <<"policies", a.policy_id.text>> \o
                          (IF a.webhook_id = PyNone THEN << >>
                           ELSE <<"webhooks", a.webhook_id.text>>))
        segments == Append(base \o ids, "")
        url == append_segments(Head(segments), Tail(segments))
    IN  IF a.format = PyStr("json")
        THEN PyList(<<[href |-> url, rel |-> "self"]>> \o
                    (IF a.capability_hash = PyNone THEN << >>
                     ELSE <<[href |-> append_segments(config.url_root,
                                          <<api, "execute", a.capability_version,
                                            a.capability_hash.text, "">>),
                             rel |-> "capability"]>>))
        ELSE PyStr(url)

\* get_autoscale_links on the record `a` of its arguments, with the
\* configuration `config`: the list of links for format "json", else the URL
\* as a str
get_autoscale_links(a, config) ==
    LET api == "v" \o a.api_version
        base == <<config.url_root, api, a.tenant_id, "groups">>
        ids == IF a.group_id = PyNone THEN << >>
               ELSE <<a.group_id.text>> \o
                    (IF a.policy_id = PyNone THEN << >>
                     ELSE <<"policies", a.policy_id.text>> \o
                          (IF a.webhook_id = PyNone THEN << >>
                           ELSE <<"webhooks", a.webhook_id.text>>))
        named == base \o ids
        segments == IF named[Len(named)] # "" THEN Append(named, "") ELSE named
        url == append_segments(Head(segments), Tail(segments))
    IN  IF a.format = PyStr("json")
        THEN PyList(<<[href |-> url, rel |-> "self"]>> \o
                    (IF a.capability_hash = PyNone THEN << >>
                     ELSE <<[href |-> append_segments(config.url_root,
                                          <<api, "execute", a.capability_version,
                                            a.capability_hash.text, "">>),
                             rel |-> "capability"]>>))
        ELSE PyStr(url)

\* the arguments get_autoscale_links defaults
AutoscaleLinksArgs(tenant_id, group_id, policy_id, webhook_id, format) ==
    [tenant_id |-> tenant_id, group_id |-> group_id, policy_id |-> policy_id,
     webhook_id |-> webhook_id, capability_hash |-> PyNone,
     capability_version |-> "1", format |-> format, api_version |-> "1.0"]

\* a link of a collection: href is `url`, followed, when `query` is not
\* empty, by '?' and urlencode(query)
CollectionLink(url, query, rel) == [href |-> url, query |-> query, rel |-> rel]

\* mutant: the configured limit is not consulted
effective_limit_no_config(limit, config) ==
    IF Truthy(limit) THEN limit.n ELSE DefaultLimit

\* limit or config_value('limits.pagination') or 100
effective_limit(limit, config) ==
    IF Truthy(limit) THEN limit.n
    ELSE IF Truthy(config.pagination) THEN config.pagination.n
    ELSE DefaultLimit

\* mutant: the marker taken from the last item, however long the collection
get_collection_links_last_marker(collection, url, rel, limit, marker, config) ==
    LET lim == effective_limit(limit, config)
    IN  (IF ~Truthy(marker) /\ rel # PyNone
         THEN <<CollectionLink(url, EmptyDict, rel.text)>> ELSE << >>)
        \o (IF Len(collection) >= lim
            THEN <<CollectionLink(url, ("limit" :> ToString(lim))
                                       @@ ("marker" :> collection[Len(collection)].id),
                                  "next")>>
            ELSE << >>)

\* mutant: the next link only for a collection longer than the limit
get_collection_links_next_when_longer(collection, url, rel, limit, marker, config) ==
    LET lim == effective_limit(limit, config)
    IN  (IF ~Truthy(marker) /\ rel # PyNone
         THEN <<CollectionLink(url, EmptyDict, rel.text)>> ELSE << >>)
        \o (IF Len(collection) > lim
            THEN <<CollectionLink(url, ("limit" :> ToString(lim))
                                       @@ ("marker" :> collection[lim].id), "next")>>
            ELSE << >>)

\* mutant: the self link added whatever the marker
get_collection_links_always_self(collection, url, rel, limit, marker, config) ==
    LET lim == effective_limit(limit, config)
    IN  (IF rel # PyNone THEN <<CollectionLink(url, EmptyDict, rel.text)>> ELSE << >>)
        \o (IF Len(collection) >= lim
            THEN <<CollectionLink(url, ("limit" :> ToString(lim))
                                       @@ ("marker" :> collection[lim].id), "next")>>
            ELSE << >>)

\* collection[limit - 1] of the code is collection[lim] here: sequences start at 1
get_collection_links(collection, url, rel, limit, marker, config) ==
    LET lim == effective_limit(limit, config)
    IN  (IF ~Truthy(marker) /\ rel # PyNone
         THEN <<CollectionLink(url, EmptyDict, rel.text)>> ELSE << >>)
        \o (IF Len(collection) >= lim
            THEN <<CollectionLink(url, ("limit" :> ToString(lim))
                                       @@ ("marker" :> collection[lim].id), "next")>>
            ELSE << >>)

get_groups_links(groups, tenant_id, rel, limit, marker, config) ==
    get_collection_links(groups,
        get_autoscale_links(AutoscaleLinksArgs(tenant_id, PyNone, PyNone, PyNone, PyNone),
                            config).text,
        rel, limit, marker, config)

get_policies_links(policies, tenant_id, group_id, rel, limit, marker, config) ==
    get_collection_links(policies,
        get_autoscale_links(AutoscaleLinksArgs(tenant_id, group_id, PyStr(""), PyNone, PyNone),
                            config).text,
        rel, limit, marker, config)

get_webhooks_links(webhooks, tenant_id, group_id, policy_id, rel, limit, marker, config) ==
    get_collection_links(webhooks,
        get_autoscale_links(AutoscaleLinksArgs(tenant_id, group_id, policy_id, PyStr(""), PyNone),
                            config).text,
        rel, limit, marker, config)

\* the collection of n items, in ascending id order
Collection(n) == [i \in 1..n |-> [id |-> "id" \o ToString(i)]]

\* the lengths considered: the short collections and those about the default limit
CollectionSizes == (0..MaxItems) \cup {DefaultLimit - 1, DefaultLimit, DefaultLimit + 1}

\* the calls considered: the function called, its arguments, the configuration
LinksArgs ==
    [fn : {"get_collection_links", "get_groups_links", "get_policies_links",
           "get_webhooks_links"},
     collection : {Collection(n) : n \in CollectionSizes},
     rel : {PyStr("self"), PyNone},
     limit : {PyNone, PyInt(1), PyInt(2)},
     marker : {PyNone, PyStr(""), PyStr("id0")},
     config : [url_root : {"http://otter.example", "http://otter.example/"},
               pagination : {PyNone, PyInt(3)}]]

\* the call links_args describes
CallLinks(a) ==
    CASE a.fn = "get_collection_links" ->
            get_collection_links(a.collection, "http://otter.example/v1.0/t1/groups/",
                                 a.rel, a.limit, a.marker, a.config)
      [] a.fn = "get_groups_links" ->
            get_groups_links(a.collection, "t1", a.rel, a.limit, a.marker, a.config)
      [] a.fn = "get_policies_links" ->
            get_policies_links(a.collection, "t1", PyStr("g1"),
                               a.rel, a.limit, a.marker, a.config)
      [] a.fn = "get_webhooks_links" ->
            get_webhooks_links(a.collection, "t1", PyStr("g1"), PyStr("p 1"),
                               a.rel, a.limit, a.marker, a.config)

\* The links specification: one call
InitLinks ==
    /\ IdleDb
    /\ links_args \in LinksArgs
    /\ links = NotCalled
    /\ upstream_args = << >>
    /\ upstream = NotCalled
    /\ reasons = << >>
    /\ presented = NotCalled
    /\ state = << >>
    /\ clock = 0
    /\ call = << >>
    /\ raised = ""
    /\ ret = << >>
    /\ ctor_touched = PyNone
    /\ marked = FALSE

BuildLinks ==
    /\ links = NotCalled
    /\ links' = Return(CallLinks(links_args))
    /\ UNCHANGED <<links_args, gsvars, prvars, upvars, dbvars>>

NextLinks == BuildLinks

SpecLinks == InitLinks /\ [][NextLinks]_vars

\* The autoscale links specification: one call of get_autoscale_links
UrlRoot == "http://otter.example"

\* url_root as configured: with no, one or two trailing '/'
UrlRoots == {UrlRoot, UrlRoot \o "/", UrlRoot \o "//"}

\* capability hashes are hexadecimal text
CapabilityHashes == {"a1b2", "ff"}

AutoscaleCalls ==
    [tenant_id : {"t1"},
     group_id : {PyNone, PyStr(""), PyStr("g1")},
     policy_id : {PyNone, PyStr(""), PyStr("p1")},
     webhook_id : {PyNone, PyStr(""), PyStr("w1")},
     capability_hash : {PyNone} \cup {PyStr(h) : h \in CapabilityHashes},
     capability_version : {"1", "2"},
     format : {PyStr("json"), PyNone},
     api_version : {"1.0"},
     config : [url_root : UrlRoots, pagination : {PyNone}]]

InitAutoscale ==
    /\ IdleDb
    /\ links_args \in AutoscaleCalls
    /\ links = NotCalled
    /\ upstream_args = << >>
    /\ upstream = NotCalled
    /\ reasons = << >>
    /\ presented = NotCalled
    /\ state = << >>
    /\ clock = 0
    /\ call = << >>
    /\ raised = ""
    /\ ret = << >>
    /\ ctor_touched = PyNone
    /\ marked = FALSE

BuildAutoscaleLinks ==
    /\ links = NotCalled
    /\ links' = Return(get_autoscale_links(links_args, links_args.config))
    /\ UNCHANGED <<links_args, gsvars, prvars, upvars, dbvars>>

NextAutoscale == BuildAutoscaleLinks

SpecAutoscale == InitAutoscale /\ [][NextAutoscale]_vars

----------------------------------------------------------------------------
(* Claims about the collection links, checked under SpecLinks *)

HasRel(ls, rel) == \E i \in 1..Len(ls) : ls[i].rel = rel

\* C10 as stated: called with rel 'self', the links always hold a link with
\* rel 'self', with or without a marker, whether or not the page is full.
C10_AlwaysSelf ==
    (links # NotCalled /\ links_args.rel = PyStr("self")) =>
        HasRel(links.value, "self")

\* C10 as amended: called with rel 'self', the links hold a link with rel
\* 'self' exactly when no marker is given (marker None or ''), whether or not
\* the page is full.
C10_SelfUnlessMarker ==
    (links # NotCalled /\ links_args.rel = PyStr("self")) =>
        (HasRel(links.value, "self") <=> ~Truthy(links_args.marker))

C10_Witness ==
    /\ links # NotCalled
    /\ links_args.fn = "get_webhooks_links"
    /\ links_args.rel = PyStr("self")
    /\ links_args.marker = PyStr("id0")
    /\ Len(links_args.collection) = 2
    /\ Len(links.value) = 1
    /\ links.value[1].rel = "next"

NextLinkOf(ls) == CHOOSE l \in {ls[i] : i \in 1..Len(ls)} : l.rel = "next"

\* the limit a call gives, when it gives one
GivenLimit(a) == IF a.limit = PyNone THEN DefaultLimit ELSE a.limit.n

\* C11 as stated: the links hold a 'next' link exactly when the collection has
\* at least as many items as the effective limit, which is the supplied limit
\* when one is given and 100 when none is given, and the next link's query
\* carries that limit.
C11_NextAtSuppliedLimitOr100 ==
    (links # NotCalled) =>
        /\ HasRel(links.value, "next") <=>
                Len(links_args.collection) >= GivenLimit(links_args)
        /\ HasRel(links.value, "next") =>
                NextLinkOf(links.value).query["limit"] = ToString(GivenLimit(links_args))

\* the limit of a call: the supplied limit, else the configured
\* limits.pagination, else 100
LimitInEffect(a) ==
    IF a.limit # PyNone THEN a.limit.n
    ELSE IF a.config.pagination # PyNone THEN a.config.pagination.n
    ELSE 100

\* C11 as amended: the links hold a 'next' link exactly when the collection has
\* at least as many items as the limit in effect (the supplied positive limit,
\* else the configured positive limits.pagination, else 100), and the next
\* link's query carries that limit.
C11_NextAtLimitInEffect ==
    (links # NotCalled) =>
        /\ HasRel(links.value, "next") <=>
                Len(links_args.collection) >= LimitInEffect(links_args)
        /\ HasRel(links.value, "next") =>
                NextLinkOf(links.value).query["limit"] = ToString(LimitInEffect(links_args))

C11_Witness ==
    /\ links # NotCalled
    /\ links_args.limit = PyNone
    /\ links_args.config.pagination = PyNone
    /\ Len(links_args.collection) = 100
    /\ HasRel(links.value, "next")
    /\ NextLinkOf(links.value).query["limit"] = "100"
    /\ NextLinkOf(links.value).query["marker"] = "id100"

----------------------------------------------------------------------------
(* Claims about get_autoscale_links, checked under SpecAutoscale *)

\* the links with rel 'capability' among the links returned; a URL returned
\* as text holds no links
CapabilityHrefs(v) ==
    IF v.type # "list" THEN << >>
    ELSE SelectSeq([i \in 1..Len(v.items) |->
                        IF v.items[i].rel = "capability" THEN v.items[i].href ELSE ""],
                   LAMBDA h : h # "")

\* C12: called with format 'json' and a capability hash, get_autoscale_links
\* returns one link with rel 'capability' whose href is
\* {url_root}/v{api_version}/execute/{capability_version}/{hash}/ with one '/'
\* between segments whatever trailing '/' url_root has; called with no
\* capability hash, or a format other than 'json', it returns no such link.
C12_CapabilityLink ==
    (links # NotCalled) =>
        CapabilityHrefs(links.value) =
            IF links_args.format = PyStr("json") /\ links_args.capability_hash # PyNone
            THEN <<UrlRoot \o "/v" \o links_args.api_version \o "/execute/"
                   \o links_args.capability_version \o "/"
                   \o links_args.capability_hash.text \o "/">>
            ELSE << >>

C12_Witness ==
    /\ links # NotCalled
    /\ links_args.format = PyStr("json")
    /\ links_args.capability_hash = PyStr("a1b2")
    /\ links_args.config.url_root = UrlRoot \o "//"
    /\ links_args.capability_version = "2"
    /\ CapabilityHrefs(links.value) = <<"http://otter.example/v1.0/execute/2/a1b2/">>

----------------------------------------------------------------------------
(* Claims about status, error_reasons and desired, checked under SpecFields *)

ReasonsIffError(s) == (s.error_reasons # << >>) <=> (s.status = "ERROR")

\* C13 as stated: in every GroupState that can be constructed, and in every
\* state reached from it by GroupState's operations, error_reasons is
\* non-empty if and only if status = ERROR.
C13_ReasonsIffError == ReasonsIffError(state)

\* C13 as amended: GroupState's operations keep status and error_reasons as
\* constructed, so error_reasons is non-empty if and only if status = ERROR
\* after an operation whenever it was so before it; the constructor accepts
\* any combination of the two.
C13_OperationsKeepReasonsIffError ==
    [][/\ state'.status = state.status
       /\ state'.error_reasons = state.error_reasons
       /\ ReasonsIffError(state) => ReasonsIffError(state')]_vars

C13_Witness ==
    /\ call.op = "add_active"
    /\ raised = ""
    /\ state.status = "ERROR"
    /\ state.error_reasons = <<"reason">>
    /\ DOMAIN state.active # {}

\* C14 as stated: in every GroupState that can be constructed, and in every
\* state reached from it by GroupState's operations, desired is a
\* non-negative integer.
C14_DesiredNonNegative == state.desired \in Nat

\* C14 as amended: desired is the integer the GroupState was constructed with,
\* negative or not: GroupState's operations never change it.
C14_OperationsKeepDesired ==
    [][state'.desired \in Int /\ state'.desired = state.desired]_vars

C14_Witness ==
    /\ call.op = "get_capacity"
    /\ raised = ""
    /\ state.desired = 2
    /\ ret[1].desired_capacity = 0

----------------------------------------------------------------------------
(* The group store and its mutation engine: IScalingGroup.  The interface   *)
(* is declared in otter/models/interface.py; what its operations do is      *)
(* taken from their docstrings and from the specification of the store.     *)

GroupIds == {"g1", "g2"}

Callers == {"c1", "c2"}

\* the other components, while a specification of the stores runs
IdleOthers ==
    /\ state = << >>
    /\ clock = 0
    /\ call = << >>
    /\ raised = ""
    /\ ret = << >>
    /\ ctor_touched = PyNone
    /\ marked = FALSE
    /\ reasons = << >>
    /\ presented = NotCalled
    /\ upstream_args = << >>
    /\ upstream = NotCalled
    /\ links_args = << >>
    /\ links = NotCalled
    /\ details_calls = << >>
    /\ code_call = << >>
    /\ walk = << >>
    /\ cron_call = << >>

\* the schedule store and the capability index, while the group store runs
IdleSchedule ==
    /\ buckets = << >>
    /\ fetchers = << >>

IdleCapability ==
    /\ policy_db = << >>
    /\ webhook_db = << >>
    /\ issued = << >>
    /\ capability_call = << >>

\* a persisted group, and a group that is not in the store
Persisted(s) == [exists |-> TRUE, state |-> s]

NoGroup == [exists |-> FALSE, state |-> << >>]

\* the GroupState of an empty group
NewState(group_id, active, pending, status, error_reasons) ==
    GroupState([tenant_id      |-> PyText("tid"),
                group_id       |-> PyText(group_id),
                group_name     |-> PyText("name"),
                active         |-> active,
                pending        |-> pending,
                group_touched  |-> PyNone,
                policy_touched |-> EmptyDict,
                paused         |-> FALSE,
                status         |-> status,
                suspended      |-> FALSE,
                error_reasons  |-> error_reasons,
                desired        |-> 0])

\* what the GroupState methods called by a modifier read from self.now()
ModifierNows == <<Format(1), Format(1)>>

\* a modifier callable is a sequence of GroupState method calls on the state
\* it is given; it returns that state, or fails where one of the calls fails
MethodCall(op, arg) == [op |-> op, arg |-> arg]

ApplyMethod(c, s) ==
    CASE c.op = "add_job" -> add_job(s, c.arg, ModifierNows)
      [] c.op = "remove_job" -> remove_job(s, c.arg, ModifierNows)
      [] c.op = "add_active" -> add_active(s, c.arg, EmptyDict, ModifierNows)
      [] c.op = "remove_active" -> remove_active(s, c.arg, ModifierNows)

RECURSIVE RunModifier(_, _)
RunModifier(f, s) ==
    IF f = << >> THEN Returned(s, <<s>>)
    ELSE LET r == ApplyMethod(Head(f), s)
         IN  IF r.raised # "" THEN r ELSE RunModifier(Tail(f), r.state)

Modifiers == {<<MethodCall("add_job", "1")>>,
              <<MethodCall("remove_job", "1"), MethodCall("add_active", "1")>>,
              <<MethodCall("add_job", "2"), MethodCall("remove_active", "1")>>}

\* mutant: the state is saved whether or not the modifier returned it
modify_state_saves_anyway(modifier_callable, persisted) ==
    IF ~persisted.exists \/ persisted.state.status = "DELETING"
    THEN [invoked |-> FALSE, save |-> FALSE, state |-> << >>,
          outcome |-> Raise("NoSuchScalingGroupError")]
    ELSE LET r == RunModifier(modifier_callable, persisted.state)
         IN  [invoked |-> TRUE, save |-> TRUE, state |-> r.state,
              outcome |-> IF r.raised = "" THEN Return(PyNone) ELSE Raise(r.raised)]

\* modify_state(modifier_callable), from the persisted group it reads under
\* the group's lock: whether the modifier is invoked, whether a state is
\* saved and which, and what the call fires with
modify_state(modifier_callable, persisted) ==
    IF ~persisted.exists \/ persisted.state.status = "DELETING"
    THEN [invoked |-> FALSE, save |-> FALSE, state |-> << >>,
          outcome |-> Raise("NoSuchScalingGroupError")]
    ELSE LET r == RunModifier(modifier_callable, persisted.state)
         IN  IF r.raised = ""
             THEN [invoked |-> TRUE, save |-> TRUE, state |-> r.ret[1],
                   outcome |-> Return(PyNone)]
             ELSE [invoked |-> TRUE, save |-> FALSE, state |-> r.state,
                   outcome |-> Raise(r.raised)]

\* mutant: a lock that is granted whoever holds it
lock_granted_always(holder) == TRUE

\* the group's lock is granted when no caller holds it
lock_granted(holder) == holder = "free"

\* a caller that has not called yet
IdleCaller ==
    [pc |-> "idle", group |-> "", modifier |-> << >>, observed |-> NoGroup,
     invoked |-> FALSE, local |-> << >>, outcome |-> NotCalled]

\* the persisted groups the callers may find
StartGroups(g) ==
    {Persisted(NewState(g, EmptyDict, EmptyDict, "ACTIVE", << >>)),
     Persisted(NewState(g, EmptyDict, DictSet(EmptyDict, "1", EmptyDict), "ACTIVE", << >>)),
     Persisted(NewState(g, DictSet(EmptyDict, "1", EmptyDict), EmptyDict, "ERROR", <<"reason">>)),
     Persisted(NewState(g, EmptyDict, EmptyDict, "DELETING", << >>))}

InitStore ==
    /\ IdleOthers
    /\ IdleSchedule
    /\ IdleCapability
    /\ group_db \in {db \in [GroupIds -> UNION {StartGroups(g) : g \in GroupIds}] :
                        \A g \in GroupIds : db[g] \in StartGroups(g)}
    /\ group_db0 = group_db
    /\ locks = [g \in GroupIds |-> "free"]
    /\ procs = [c \in Callers |-> IdleCaller]
    /\ store_call = [op |-> "", caller |-> "", group |-> "", arg |-> "",
                     outcome |-> NotCalled]

\* a caller calls modify_state on a group
Begin(c) ==
    /\ procs[c].pc = "idle"
    /\ \E g \in GroupIds, f \in Modifiers :
          procs' = [procs EXCEPT ![c] = [@ EXCEPT !.pc = "acquire", !.group = g,
                                                  !.modifier = f]]
    /\ UNCHANGED <<group_db, group_db0, locks, store_call, gsvars, prvars, upvars, lkvars, scvars, cpvars, hlvars>>

\* the call is granted the lock of its group
Acquire(c) ==
    /\ procs[c].pc = "acquire"
    /\ lock_granted(locks[procs[c].group])
    /\ locks' = [locks EXCEPT ![procs[c].group] = c]
    /\ procs' = [procs EXCEPT ![c].pc = "read"]
    /\ UNCHANGED <<group_db, group_db0, store_call, gsvars, prvars, upvars, lkvars, scvars, cpvars, hlvars>>

\* the call reads the persisted group, and fails without invoking the
\* modifier when there is none or it is being deleted
ReadState(c) ==
    /\ procs[c].pc = "read"
    /\ LET p == group_db[procs[c].group]
           r == modify_state(procs[c].modifier, p)
       IN  procs' = [procs EXCEPT ![c] =
                        IF r.invoked
                        THEN [@ EXCEPT !.pc = "call", !.observed = p]
                        ELSE [@ EXCEPT !.pc = "release", !.observed = p,
                                       !.outcome = r.outcome]]
    /\ UNCHANGED <<group_db, group_db0, locks, store_call, gsvars, prvars, upvars, lkvars, scvars, cpvars, hlvars>>

\* the modifier runs on the state that was read
CallModifier(c) ==
    /\ procs[c].pc = "call"
    /\ LET r == modify_state(procs[c].modifier, procs[c].observed)
       IN  procs' = [procs EXCEPT ![c] =
                        [@ EXCEPT !.pc = IF r.save THEN "save" ELSE "release",
                                  !.invoked = TRUE,
                                  !.local = r.state,
                                  !.outcome = r.outcome]]
    /\ UNCHANGED <<group_db, group_db0, locks, store_call, gsvars, prvars, upvars, lkvars, scvars, cpvars, hlvars>>

\* the state the modifier returned replaces the persisted state
SaveState(c) ==
    /\ procs[c].pc = "save"
    /\ group_db' = [group_db EXCEPT ![procs[c].group] = Persisted(procs[c].local)]
    /\ procs' = [procs EXCEPT ![c].pc = "release"]
    /\ UNCHANGED <<group_db0, locks, store_call, gsvars, prvars, upvars, lkvars, scvars, cpvars, hlvars>>

\* the lock is released and the call fires with its outcome
Release(c) ==
    /\ procs[c].pc = "release"
    /\ locks' = [locks EXCEPT ![procs[c].group] = "free"]
    /\ procs' = [procs EXCEPT ![c].pc = "done"]
    /\ store_call' = [op |-> "modify_state", caller |-> c, group |-> procs[c].group,
                      arg |-> "", outcome |-> procs[c].outcome]
    /\ UNCHANGED <<group_db, group_db0, gsvars, prvars, upvars, lkvars, scvars, cpvars, hlvars>>

BeginModify == \E c \in Callers : Begin(c)

AcquireLock == \E c \in Callers : Acquire(c)

ReadPersisted == \E c \in Callers : ReadState(c)

InvokeModifier == \E c \in Callers : CallModifier(c)

SavePersisted == \E c \in Callers : SaveState(c)

ReleaseLock == \E c \in Callers : Release(c)

\* The mutation engine specification: each caller makes one modify_state call
NextModify ==
    \/ BeginModify
    \/ AcquireLock
    \/ ReadPersisted
    \/ InvokeModifier
    \/ SavePersisted
    \/ ReleaseLock

SpecModify == InitStore /\ [][NextModify]_vars

\* the outcome of a store call on a persisted group, and the group after it
StoreResult(persisted, outcome) == [group |-> persisted, outcome |-> outcome]

\* mutant: delete_group that does not look at the state
delete_group_unchecked(persisted) ==
    IF ~persisted.exists
    THEN StoreResult(persisted, Raise("NoSuchScalingGroupError"))
    ELSE StoreResult(Persisted([persisted.state EXCEPT !.status = "DELETING"]),
                     Return(PyNone))

\* delete_group(): fails unless the state is empty, else marks the group
\* DELETING; the purge follows later
delete_group(persisted) ==
    IF ~persisted.exists
    THEN StoreResult(persisted, Raise("NoSuchScalingGroupError"))
    ELSE IF DOMAIN persisted.state.active # {} \/ DOMAIN persisted.state.pending # {}
    THEN StoreResult(persisted, Raise("GroupNotEmptyError"))
    ELSE StoreResult(Persisted([persisted.state EXCEPT !.status = "DELETING"]),
                     Return(PyNone))

\* mutant: update_status that writes the status of any group it finds
update_status_unchecked(persisted, status) ==
    IF ~persisted.exists
    THEN StoreResult(persisted, Raise("NoSuchScalingGroupError"))
    ELSE StoreResult(Persisted([persisted.state EXCEPT !.status = status]),
                     Return(PyNone))

\* update_status(status): a group that is being deleted is no longer there
\* to be updated
update_status(persisted, status) ==
    IF ~persisted.exists \/ persisted.state.status = "DELETING"
    THEN StoreResult(persisted, Raise("NoSuchScalingGroupError"))
    ELSE StoreResult(Persisted([persisted.state EXCEPT !.status = status]),
                     Return(PyNone))

\* view_manifest(get_deleting=...): the manifest as far as the state goes
view_manifest(persisted, get_deleting) ==
    IF ~persisted.exists \/ (persisted.state.status = "DELETING" /\ ~get_deleting)
    THEN StoreResult(persisted, Raise("NoSuchScalingGroupError"))
    ELSE StoreResult(persisted,
                     Return([id |-> persisted.state.group_id,
                             state |-> persisted.state,
                             status |-> persisted.state.status]))

\* a store call that is done in one step, under the group's lock where it
\* takes it
StoreCalled(op, g, arg, r) ==
    /\ group_db' = [group_db EXCEPT ![g] = r.group]
    /\ store_call' = [op |-> op, caller |-> "", group |-> g, arg |-> arg,
                      outcome |-> r.outcome]
    /\ UNCHANGED <<group_db0, locks, procs, gsvars, prvars, upvars, lkvars, scvars, cpvars, hlvars>>

DeleteGroup ==
    \E g \in GroupIds :
        /\ lock_granted(locks[g])
        /\ StoreCalled("delete_group", g, "", delete_group(group_db[g]))

\* the status is part of the group's state, which is changed only under the
\* group's lock
UpdateStatus ==
    \E g \in GroupIds, status \in ScalingGroupStatus :
        /\ lock_granted(locks[g])
        /\ StoreCalled("update_status", g, status, update_status(group_db[g], status))

ViewManifest ==
    \E g \in GroupIds, get_deleting \in BOOLEAN :
        /\ StoreCalled("view_manifest", g, get_deleting,
                       view_manifest(group_db[g], get_deleting))
        /\ group_db' = group_db

\* the purge of a group marked DELETING
PurgeGroup ==
    \E g \in GroupIds :
        /\ group_db[g].exists
        /\ group_db[g].state.status = "DELETING"
        /\ lock_granted(locks[g])
        /\ group_db' = [group_db EXCEPT ![g] = NoGroup]
        /\ UNCHANGED <<group_db0, locks, procs, store_call, gsvars, prvars, upvars, lkvars, scvars, cpvars, hlvars>>

\* The group store specification: modify_state calls among the other calls
NextStore ==
    \/ BeginModify
    \/ AcquireLock
    \/ ReadPersisted
    \/ InvokeModifier
    \/ SavePersisted
    \/ ReleaseLock
    \/ DeleteGroup
    \/ UpdateStatus
    \/ ViewManifest
    \/ PurgeGroup

\* one group is in the store and one caller calls modify_state; the other
\* group was never created, and calls on it find no group
InitOneGroup ==
    /\ IdleOthers
    /\ IdleSchedule
    /\ IdleCapability
    /\ \E p \in StartGroups("g1") :
          group_db = [g \in GroupIds |-> IF g = "g1" THEN p ELSE NoGroup]
    /\ group_db0 = group_db
    /\ locks = [g \in GroupIds |-> "free"]
    /\ procs = [c \in Callers |->
                   IF c = "c1" THEN IdleCaller ELSE [IdleCaller EXCEPT !.pc = "done"]]
    /\ store_call = [op |-> "", caller |-> "", group |-> "", arg |-> "",
                     outcome |-> NotCalled]

SpecStore == InitOneGroup /\ [][NextStore]_vars

----------------------------------------------------------------------------
(* Claims about modify_state, checked under SpecModify *)

\* the step is the save of caller c's call on group g
SavedBy(c, g) ==
    procs[c].pc = "save" /\ procs'[c].pc = "release" /\ procs[c].group = g

\* the step completes caller c's call on group g, whose modifier failed
FailedBy(c, g) ==
    /\ procs[c].pc = "release" /\ procs'[c].pc = "done" /\ procs[c].group = g
    /\ procs[c].invoked
    /\ RunModifier(procs[c].modifier, procs[c].observed.state).raised # ""

\* C15: a persisted state changes only by being replaced, in one step, by the
\* whole state a modifier returned for it; a call whose modifier fails leaves
\* the persisted state as it found it and fires with the modifier's error;
\* so no persisted state holds part of what a modifier did.
C15_WholeStateOrNothing ==
    [][\A g \in GroupIds :
          /\ (group_db'[g] # group_db[g]) =>
                \E c \in Callers :
                    /\ SavedBy(c, g)
                    /\ RunModifier(procs[c].modifier, group_db[g].state).raised = ""
                    /\ group_db'[g] =
                          Persisted(RunModifier(procs[c].modifier, group_db[g].state).state)
          /\ \A c \in Callers :
                FailedBy(c, g) =>
                    /\ group_db'[g] = procs[c].observed
                    /\ store_call'.caller = c
                    /\ store_call'.outcome =
                          Raise(RunModifier(procs[c].modifier,
                                            procs[c].observed.state).raised)]_vars

C15_Witness ==
    \E c \in Callers :
        /\ procs[c].pc = "done"
        /\ procs[c].outcome = Raise("AssertionError")
        /\ procs[c].local # procs[c].observed.state
        /\ group_db[procs[c].group] = procs[c].observed
        /\ store_call.caller = c

\* the caller holds the lock of its group
Holding(c) == procs[c].pc \in {"read", "call", "save", "release"}

\* the persisted group after a modify_state(f) call that found p
AfterModify(f, p) ==
    IF ~p.exists \/ p.state.status = "DELETING" THEN p
    ELSE LET r == RunModifier(f, p.state)
         IN  IF r.raised = "" THEN Persisted(r.state) ELSE p

\* C16: of two concurrent modify_state calls on a group at most one holds the
\* group's lock and runs its modifier at a time, the state a modifier is given
\* is the persisted state, and once both calls are done the persisted state is
\* what one call after the other gives, in one of the two orders; a call on
\* another group has no part in it.
C16_Serializable ==
    /\ \A c1, c2 \in Callers :
          (c1 # c2 /\ Holding(c1) /\ Holding(c2)) => procs[c1].group # procs[c2].group
    /\ \A c \in Callers :
          procs[c].pc \in {"call", "save"} => procs[c].observed = group_db[procs[c].group]
    /\ \A c1, c2 \in Callers :
          (c1 # c2 /\ procs[c1].pc = "done" /\ procs[c2].pc = "done") =>
              LET g == procs[c1].group
                  f1 == procs[c1].modifier
                  f2 == procs[c2].modifier
              IN  IF procs[c2].group = g
                  THEN group_db[g] \in
                          {AfterModify(f2, AfterModify(f1, group_db0[g])),
                           AfterModify(f1, AfterModify(f2, group_db0[g]))}
                  ELSE group_db[g] = AfterModify(f1, group_db0[g])

C16_Witness ==
    /\ procs["c1"].pc = "done" /\ procs["c2"].pc = "done"
    /\ procs["c1"].group = "g1" /\ procs["c2"].group = "g1"
    /\ store_call.caller = "c2"
    /\ group_db["g1"] = AfterModify(procs["c2"].modifier,
                                    AfterModify(procs["c1"].modifier, group_db0["g1"]))
    /\ group_db["g1"] # AfterModify(procs["c1"].modifier,
                                    AfterModify(procs["c2"].modifier, group_db0["g1"]))
    /\ group_db["g1"] # AfterModify(procs["c2"].modifier, group_db0["g1"])
    /\ group_db["g1"] # AfterModify(procs["c1"].modifier, group_db0["g1"])

----------------------------------------------------------------------------
(* Claims about the group store, checked under SpecStore *)

\* the step is a call of the store operation `op`
StoreStep(op) == store_call' # store_call /\ store_call'.op = op

Deleting(p) == p.exists /\ p.state.status = "DELETING"

NotEmpty(p) == DOMAIN p.state.active # {} \/ DOMAIN p.state.pending # {}

\* C18: delete_group on a group with an active server or a pending job fails
\* with GroupNotEmptyError and leaves the persisted group as it was; on a group
\* with neither it returns and the group's status is DELETING; view_manifest
\* with get_deleting false on a group whose status is DELETING fails with
\* NoSuchScalingGroupError.
C18_DeleteGroup ==
    [][/\ StoreStep("delete_group") =>
            LET g == store_call'.group
            IN  group_db[g].exists =>
                    IF NotEmpty(group_db[g])
                    THEN /\ store_call'.outcome = Raise("GroupNotEmptyError")
                         /\ group_db' = group_db
                    ELSE /\ store_call'.outcome = Return(PyNone)
                         /\ group_db'[g] =
                               Persisted([group_db[g].state EXCEPT !.status = "DELETING"])
       /\ (StoreStep("view_manifest") /\ Deleting(group_db[store_call'.group])) =>
            IF store_call'.arg
            THEN store_call'.outcome.raised = ""
            ELSE store_call'.outcome = Raise("NoSuchScalingGroupError")]_vars

C18_Witness ==
    /\ store_call.op = "delete_group"
    /\ store_call.group = "g1"
    /\ store_call.outcome = Return(PyNone)
    /\ Deleting(group_db["g1"])
    /\ ~NotEmpty(group_db["g1"])
    /\ group_db0["g1"].state.status = "ACTIVE"

----------------------------------------------------------------------------
(* The schedule store: IScalingScheduleCollection.  The interface is        *)
(* declared in otter/models/interface.py; what fetch_and_delete does is     *)
(* taken from its docstring and from the specification of the store.        *)

\* the group store, while a specification of another store runs
IdleStore ==
    /\ group_db = << >>
    /\ group_db0 = << >>
    /\ locks = << >>
    /\ procs = << >>
    /\ store_call = << >>

Buckets == {"b0", "b1"}

EventIds == {"e1", "e2", "e3"}

Workers == {"w1", "w2"}

\* the size arguments of fetch_and_delete
BatchSizes == {1, 2}

\* instants: trigger times and the `now` arguments
Instants == 1..MaxClock

\* a scheduled event
Event(id, bucket, trigger_time) ==
    [id |-> id, bucket |-> bucket, trigger_time |-> trigger_time]

\* the events of a bucket that are due at `now`
Due(events, now) == {e \in events : e.trigger_time <= now}

\* the batches a fetch of at most `size` events may take from a bucket, which
\* is a queue ordered by trigger_time: the oldest due events
Batches(events, now, size) ==
    LET due == Due(events, now)
        n == IF Cardinality(due) < size THEN Cardinality(due) ELSE size
    IN  {batch \in SUBSET due :
            /\ Cardinality(batch) = n
            /\ \A e \in batch, later \in due \ batch :
                  e.trigger_time <= later.trigger_time}

\* mutant: the events fetched stay in the bucket
fetch_and_delete_keeps_events(events, batch) ==
    [events |-> events, result |-> batch]

\* fetch_and_delete(bucket, now, size) on the events of the bucket, taking
\* `batch`: the bucket after it, and the events it fires with
fetch_and_delete(events, batch) ==
    [events |-> events \ batch, result |-> batch]

\* the ids of the events inserted so far: those in a bucket and those fetched
InsertedIds ==
    {e.id : e \in UNION {buckets[b] : b \in Buckets}}
        \cup {e.id : e \in UNION {fetchers[w].result : w \in Workers}}

IdleWorker == [pc |-> "idle", bucket |-> "", now |-> 0, size |-> 0, result |-> {}]

InitSchedule ==
    /\ IdleOthers
    /\ IdleStore
    /\ IdleCapability
    /\ buckets = [b \in Buckets |-> {}]
    /\ fetchers = [w \in Workers |-> IdleWorker]

\* add_cron_events: an event is inserted, once, into a bucket
AddCronEvents ==
    /\ \E id \in EventIds \ InsertedIds, b \in Buckets, t \in Instants :
          buckets' = [buckets EXCEPT ![b] = @ \cup {Event(id, b, t)}]
    /\ UNCHANGED <<fetchers, gsvars, prvars, upvars, lkvars, stvars, cpvars, hlvars>>

\* a worker calls fetch_and_delete(bucket, now, size)
CallFetch ==
    /\ \E w \in Workers, b \in Buckets, now \in Instants, size \in BatchSizes :
          /\ fetchers[w].pc = "idle"
          /\ fetchers' = [fetchers EXCEPT ![w] =
                             [@ EXCEPT !.pc = "fetching", !.bucket = b,
                                       !.now = now, !.size = size]]
    /\ UNCHANGED <<buckets, gsvars, prvars, upvars, lkvars, stvars, cpvars, hlvars>>

\* the store serves the call: the events are taken out of the bucket and
\* returned in one operation
FetchAndDelete ==
    /\ \E w \in Workers :
          /\ fetchers[w].pc = "fetching"
          /\ \E batch \in Batches(buckets[fetchers[w].bucket],
                                  fetchers[w].now, fetchers[w].size) :
                LET r == fetch_and_delete(buckets[fetchers[w].bucket], batch)
                IN  /\ buckets' = [buckets EXCEPT ![fetchers[w].bucket] = r.events]
                    /\ fetchers' = [fetchers EXCEPT ![w] =
                                       [@ EXCEPT !.pc = "done", !.result = r.result]]
    /\ UNCHANGED <<gsvars, prvars, upvars, lkvars, stvars, cpvars, hlvars>>

NextSchedule ==
    \/ AddCronEvents
    \/ CallFetch
    \/ FetchAndDelete

SpecSchedule == InitSchedule /\ [][NextSchedule]_vars

----------------------------------------------------------------------------
(* Claims about fetch_and_delete, checked under SpecSchedule *)

\* the step serves worker w's call
Fetched(w) == fetchers[w].pc = "fetching" /\ fetchers'[w].pc = "done"

\* C17: fetch_and_delete(bucket, now, size) returns at most `size` events, all
\* of that bucket and all with trigger_time <= now, and removes exactly the
\* events it returns from that bucket; it returns an event of the bucket that
\* is due whenever the due events of the bucket are no more than `size`; and
\* of two calls no event inserted once is in the results of both.
C17_FetchAndDelete ==
    /\ [][\A w \in Workers :
             Fetched(w) =>
                 LET b == fetchers[w].bucket
                     result == fetchers'[w].result
                 IN  /\ Cardinality(result) <= fetchers[w].size
                     /\ result \subseteq buckets[b]
                     /\ \A e \in result :
                           e.bucket = b /\ e.trigger_time <= fetchers[w].now
                     /\ buckets' = [buckets EXCEPT ![b] = buckets[b] \ result]
                     /\ Cardinality(Due(buckets[b], fetchers[w].now)) <= fetchers[w].size
                           => Due(buckets[b], fetchers[w].now) \subseteq result]_vars
    /\ [](\A w1, w2 \in Workers :
             w1 # w2 => fetchers[w1].result \cap fetchers[w2].result = {})

C17_Witness ==
    /\ fetchers["w1"].pc = "done" /\ fetchers["w2"].pc = "done"
    /\ fetchers["w1"].bucket = "b0" /\ fetchers["w2"].bucket = "b0"
    /\ fetchers["w1"].size = 1 /\ fetchers["w2"].size = 2
    /\ Cardinality(fetchers["w1"].result) = 1
    /\ Cardinality(fetchers["w2"].result) = 2
    /\ buckets["b0"] = {}

----------------------------------------------------------------------------
(* The capability index: create_webhooks, delete_webhook and delete_policy  *)
(* of IScalingGroup and webhook_info_by_hash of IScalingGroupCollection.    *)
(* The interfaces are declared in otter/models/interface.py; what the       *)
(* operations do is taken from their docstrings and from the specification  *)
(* of the index.                                                            *)

\* a policy, by the ids that lead to it
Policy(tenant_id, group_id, policy_id) ==
    [tenant_id |-> tenant_id, group_id |-> group_id, policy_id |-> policy_id]

Policies == {Policy("t1", "g1", "p1"), Policy("t2", "g2", "p2")}

Hashes == {"h1", "h2", "h3"}

\* the id of the webhook resource, which is not its capability hash
WebhookId(hash) == "w-" \o hash

Webhook(policy, hash) ==
    [policy |-> policy, webhook_id |-> WebhookId(hash), hash |-> hash]

\* the result of an operation of the index: the tables after it, the error
\* it raised ("" for none) and the tuple it returned
IndexResult(policies, webhooks, exc, info) ==
    [policies |-> policies, webhooks |-> webhooks, raised |-> exc, info |-> info]

\* create_webhooks(policy_id, data) for one webhook, whose capability hash is
\* generated by the store
create_webhooks(policies, webhooks, policy, hash) ==
    IF policy \notin policies
    THEN IndexResult(policies, webhooks, "NoSuchPolicyError", << >>)
    ELSE IndexResult(policies, webhooks \cup {Webhook(policy, hash)}, "", << >>)

delete_webhook(policies, webhooks, policy, webhook_id) ==
    IF policy \notin policies
    THEN IndexResult(policies, webhooks, "NoSuchPolicyError", << >>)
    ELSE IF ~\E w \in webhooks : w.policy = policy /\ w.webhook_id = webhook_id
    THEN IndexResult(policies, webhooks, "NoSuchWebhookError", << >>)
    ELSE IndexResult(policies,
                     {w \in webhooks : ~(w.policy = policy /\ w.webhook_id = webhook_id)},
                     "", << >>)

\* mutant: the webhooks of the policy outlive it
delete_policy_keeps_webhooks(policies, webhooks, policy) ==
    IF policy \notin policies
    THEN IndexResult(policies, webhooks, "NoSuchPolicyError", << >>)
    ELSE IndexResult(policies \ {policy}, webhooks, "", << >>)

\* delete_policy(policy_id): the policy and all of its webhooks
delete_policy(policies, webhooks, policy) ==
    IF policy \notin policies
    THEN IndexResult(policies, webhooks, "NoSuchPolicyError", << >>)
    ELSE IndexResult(policies \ {policy}, {w \in webhooks : w.policy # policy},
                     "", << >>)

\* webhook_info_by_hash(log, capability_hash)
webhook_info_by_hash(policies, webhooks, capability_hash) ==
    IF \E w \in webhooks : w.hash = capability_hash
    THEN LET w == CHOOSE w \in webhooks : w.hash = capability_hash
         IN  IndexResult(policies, webhooks, "",
                         <<w.policy.tenant_id, w.policy.group_id, w.policy.policy_id>>)
    ELSE IndexResult(policies, webhooks, "UnrecognizedCapabilityError", << >>)

NoPolicy == Policy("", "", "")

\* the call an operation of the index has just served
IndexCalled(op, policy, hash, r) ==
    /\ policy_db' = r.policies
    /\ webhook_db' = r.webhooks
    /\ capability_call' = [op |-> op, policy |-> policy, hash |-> hash,
                           raised |-> r.raised, info |-> r.info]

\* what has been issued: for each capability hash ever generated, the policy
\* of its webhook and whether the webhook or the policy has been deleted since
Issued(policy) ==
    [policy |-> policy, webhook_deleted |-> FALSE, policy_deleted |-> FALSE]

InitCapability ==
    /\ IdleOthers
    /\ IdleStore
    /\ IdleSchedule
    /\ policy_db = Policies
    /\ webhook_db = {}
    /\ issued = << >>
    /\ capability_call = [op |-> "", policy |-> NoPolicy, hash |-> "",
                          raised |-> "not called", info |-> << >>]

CreateWebhooks ==
    /\ \E policy \in Policies, hash \in Hashes \ DOMAIN issued :
          LET r == create_webhooks(policy_db, webhook_db, policy, hash)
          IN  /\ IndexCalled("create_webhooks", policy, hash, r)
              /\ issued' = IF r.raised = ""
                           THEN issued @@ (hash :> Issued(policy))
                           ELSE issued
    /\ UNCHANGED <<gsvars, prvars, upvars, lkvars, stvars, scvars, hlvars>>

DeleteWebhook ==
    /\ \E policy \in Policies, hash \in Hashes :
          LET r == delete_webhook(policy_db, webhook_db, policy, WebhookId(hash))
          IN  /\ IndexCalled("delete_webhook", policy, hash, r)
              /\ issued' = IF r.raised = ""
                           THEN [issued EXCEPT ![hash].webhook_deleted = TRUE]
                           ELSE issued
    /\ UNCHANGED <<gsvars, prvars, upvars, lkvars, stvars, scvars, hlvars>>

DeletePolicy ==
    /\ \E policy \in Policies :
          LET r == delete_policy(policy_db, webhook_db, policy)
          IN  /\ IndexCalled("delete_policy", policy, "", r)
              /\ issued' = IF r.raised = ""
                           THEN [h \in DOMAIN issued |->
                                    IF issued[h].policy = policy
                                    THEN [issued[h] EXCEPT !.policy_deleted = TRUE]
                                    ELSE issued[h]]
                           ELSE issued
    /\ UNCHANGED <<gsvars, prvars, upvars, lkvars, stvars, scvars, hlvars>>

WebhookInfoByHash ==
    /\ \E hash \in Hashes :
          IndexCalled("webhook_info_by_hash", NoPolicy, hash,
                      webhook_info_by_hash(policy_db, webhook_db, hash))
    /\ UNCHANGED <<issued, gsvars, prvars, upvars, lkvars, stvars, scvars, hlvars>>

NextCapability ==
    \/ CreateWebhooks
    \/ DeleteWebhook
    \/ DeletePolicy
    \/ WebhookInfoByHash

SpecCapability == InitCapability /\ [][NextCapability]_vars

----------------------------------------------------------------------------
(* Claims about webhook_info_by_hash, checked under SpecCapability *)

\* the step serves a call of webhook_info_by_hash
LookedUp ==
    /\ capability_call' # capability_call
    /\ capability_call'.op = "webhook_info_by_hash"

\* the webhook created with the hash and its policy still exist
Live(hash) ==
    /\ hash \in DOMAIN issued
    /\ ~issued[hash].webhook_deleted
    /\ ~issued[hash].policy_deleted

\* C19: after any sequence of create_webhooks, delete_webhook and
\* delete_policy, webhook_info_by_hash(h) returns (tenant_id, group_id,
\* policy_id) of the webhook created with hash h when that webhook and its
\* policy still exist, and raises UnrecognizedCapabilityError for a hash
\* never issued, or whose webhook or policy was deleted.
C19_WebhookInfoByHash ==
    [][LookedUp =>
          LET h == capability_call'.hash
          IN  IF Live(h)
              THEN /\ capability_call'.raised = ""
                   /\ capability_call'.info =
                          <<issued[h].policy.tenant_id, issued[h].policy.group_id,
                            issued[h].policy.policy_id>>
              ELSE /\ capability_call'.raised = "UnrecognizedCapabilityError"
                   /\ capability_call'.info = << >>]_vars

C19_Witness ==
    /\ capability_call.op = "webhook_info_by_hash"
    /\ capability_call.raised = "UnrecognizedCapabilityError"
    /\ capability_call.hash \in DOMAIN issued
    /\ issued[capability_call.hash].policy_deleted
    /\ ~issued[capability_call.hash].webhook_deleted
    /\ \E h \in DOMAIN issued : Live(h)

----------------------------------------------------------------------------
(* Further claims about GroupState, checked under Spec *)

\* C21: a successful add_job(j) stores pending[j] = {created: now()} with the
\* clock read once, at the call; a successful add_active(s, info) stores under
\* active[s] the keys of info with their values, and 'created' set to now()
\* when info has no 'created' key, info's own 'created' value otherwise.
C21_CreatedAtTheCall ==
    [][/\ Succeeded("add_job") =>
            /\ call'.reads = 1
            /\ state'.pending[call'.arg] = DictSet(EmptyDict, "created", Format(clock))
       /\ Succeeded("add_active") =>
            LET info == call'.info
                stored == state'.active[call'.arg]
            IN  /\ DOMAIN stored = (DOMAIN info) \cup {"created"}
                /\ \A k \in DOMAIN info : stored[k] = info[k]
                /\ "created" \notin DOMAIN info => stored["created"] = Format(clock)]_vars

C21_Witness ==
    /\ call.op = "add_active" /\ raised = ""
    /\ clock = 2
    /\ "created" \in DOMAIN call.info
    /\ state.active[call.arg]["created"] = "now"
    /\ \E s \in DOMAIN state.active :
          /\ "created" \in DOMAIN state.active[s]
          /\ state.active[s]["created"] = Format(1)
    /\ \E j \in DOMAIN state.pending : state.pending[j] = DictSet(EmptyDict, "created", Format(2))

----------------------------------------------------------------------------
(* Further claims about the collection links, checked under SpecLinks *)

\* the id of the last item of a collection
LastId(collection) == collection[Len(collection)].id

\* C22 as stated: whenever the links hold a 'next' link, its marker is the id
\* of the last item of the collection given, for every collection length,
\* including a collection longer than the limit.
C22_MarkerIsLastId ==
    (links # NotCalled /\ HasRel(links.value, "next")) =>
        NextLinkOf(links.value).query["marker"] = LastId(links_args.collection)

\* C22 as amended: whenever the links hold a 'next' link, its marker is the id
\* of the item at position `limit` of the collection given (the limit in
\* effect), which is the last item exactly when the collection has `limit`
\* items and an earlier one when the collection is longer than the limit.
C22_MarkerIsLimitThId ==
    (links # NotCalled /\ HasRel(links.value, "next")) =>
        LET lim == LimitInEffect(links_args)
            marker == NextLinkOf(links.value).query["marker"]
        IN  /\ marker = links_args.collection[lim].id
            /\ marker = LastId(links_args.collection)
                  <=> Len(links_args.collection) = lim

C22_Witness ==
    /\ links # NotCalled
    /\ links_args.limit = PyInt(2)
    /\ Len(links_args.collection) = 3
    /\ HasRel(links.value, "next")
    /\ NextLinkOf(links.value).query["marker"] = "id2"

----------------------------------------------------------------------------
(* A client paging through a collection: each page is what the store lists  *)
(* after the marker (IScalingGroup.list_policies and the like, declared in  *)
(* otter/models/interface.py), sent with the links get_collection_links     *)
(* builds for it; the client asks for the next page by the 'next' link.     *)

\* the objects, the UpstreamError and the links, while a store or a client runs
IdleCore ==
    /\ state = << >>
    /\ clock = 0
    /\ call = << >>
    /\ raised = ""
    /\ ret = << >>
    /\ ctor_touched = PyNone
    /\ marked = FALSE
    /\ reasons = << >>
    /\ presented = NotCalled
    /\ upstream_args = << >>
    /\ upstream = NotCalled
    /\ links_args = << >>
    /\ links = NotCalled

\* the collections walked have at most MaxRecords records
MaxRecords == 6

\* the limits the client asks for
WalkLimits == {1, 2, 3}

\* the position of the record with this id, in ascending id order
PositionOf(records, id) == CHOOSE i \in 1..Len(records) : records[i].id = id

\* list_policies(limit, marker) on the records of the store, which are in
\* ascending id order: at most `limit` records, those after the marker
list_policies(records, limit, marker) ==
    LET first == IF marker = PyNone THEN 1 ELSE PositionOf(records, marker.text) + 1
        last == IF first + limit - 1 < Len(records) THEN first + limit - 1
                ELSE Len(records)
    IN  SubSeq(records, first, last)

\* int(text), of the limit in the query of a link
ParseInt(text) == CHOOSE n \in 0..DefaultLimit : ToString(n) = text

WalkConfig == [url_root |-> "http://otter.example", pagination |-> PyNone]

WalkUrl == "http://otter.example/v1.0/t1/groups/g1/policies/"

\* the response to a request for a page: the page and its links
Page(rel, records, limit, marker) ==
    LET page == list_policies(records, limit, marker)
    IN  [items |-> page,
         links |-> get_collection_links(page, WalkUrl, rel, PyInt(limit), marker,
                                        WalkConfig)]

HasNext(ls) == \E i \in 1..Len(ls) : ls[i].rel = "next"

NextOf(ls) == CHOOSE l \in {ls[i] : i \in 1..Len(ls)} : l.rel = "next"

InitWalk ==
    /\ IdleCore
    /\ IdleStore
    /\ IdleSchedule
    /\ IdleCapability
    /\ details_calls = << >>
    /\ code_call = << >>
    /\ cron_call = << >>
    /\ \E rel \in {PyStr("self"), PyStr("policies"), PyNone},
          n \in 0..MaxRecords, limit \in WalkLimits :
          walk = [rel |-> rel, records |-> Collection(n), limit |-> limit,
                  marker |-> PyNone, returned |-> << >>, pages |-> 0, done |-> FALSE]

\* the walk after the client has requested a page: it will follow the page's
\* next link if it has one
Followed(w) ==
    LET p == Page(w.rel, w.records, w.limit, w.marker)
    IN  IF HasNext(p.links)
        THEN [w EXCEPT !.returned = @ \o p.items,
                       !.pages = @ + 1,
                       !.marker = PyStr(NextOf(p.links).query["marker"]),
                       !.limit = ParseInt(NextOf(p.links).query["limit"])]
        ELSE [w EXCEPT !.returned = @ \o p.items,
                       !.pages = @ + 1,
                       !.done = TRUE]

FollowNext ==
    /\ ~walk.done
    /\ walk' = Followed(walk)
    /\ UNCHANGED <<gsvars, prvars, upvars, lkvars, stvars, scvars, cpvars,
                   details_calls, code_call, cron_call>>

NextWalk == FollowNext

\* the client keeps following the next link while there is one
SpecWalk == InitWalk /\ [][NextWalk]_vars /\ WF_vars(NextWalk)

----------------------------------------------------------------------------
(* Claims about the walk, checked under SpecWalk *)

\* so far the walk has taken no more pages than the records need and has
\* returned no record twice; at its end it has returned all of them
WalkReturnsOnce ==
    /\ walk.pages <= (Len(walk.records) \div walk.limit) + 1
    /\ \A i, j \in 1..Len(walk.returned) :
          walk.returned[i] = walk.returned[j] => i = j
    /\ walk.done => walk.returned = walk.records

\* C23: a client that starts with no marker and follows the next links, against
\* a store that returns at most `limit` records in ascending id order after
\* the marker, reaches a page without a next link after finitely many pages,
\* and the pages of the walk hold every record of the collection exactly
\* once, also when the number of records is a multiple of the limit.
C23_WalkEndsWithEveryRecordOnce == <>(walk.done) /\ []WalkReturnsOnce

C23_Witness ==
    /\ walk.done
    /\ Len(walk.records) = 4
    /\ walk.limit = 2
    /\ walk.pages = 3
    /\ walk.returned = walk.records

----------------------------------------------------------------------------
(* Claims about mark_executed, checked under Spec *)

\* the instant a timestamp was formatted from
InstantOf(text) == CHOOSE n \in 0..(MaxClock + 1) : Format(n) = text

\* once a policy has been executed, group_touched is the time of one of the
\* policies and no policy has a later time; before, no policy has a time
TouchedLatest ==
    IF marked
    THEN /\ \E p \in DOMAIN state.policy_touched :
               state.group_touched = state.policy_touched[p]
         /\ \A q \in DOMAIN state.policy_touched :
               InstantOf(state.group_touched) >= InstantOf(state.policy_touched[q])
    ELSE DOMAIN state.policy_touched = {}

\* C24: from an empty policy_touched, the keys of policy_touched are exactly
\* the policy ids passed to mark_executed (mark_executed(p) adds p, no other
\* call changes policy_touched or group_touched); mark_executed(p) leaves
\* policy_touched[q] as it was for every q # p and leaves group_touched equal
\* to policy_touched[p]; and, the clock never going back, group_touched is
\* no earlier than any value of policy_touched.
C24_PolicyTouched ==
    /\ [][IF call'.op = "mark_executed"
          THEN /\ raised' = ""
               /\ DOMAIN state'.policy_touched =
                      (DOMAIN state.policy_touched) \cup {call'.arg}
               /\ \A q \in (DOMAIN state.policy_touched) \ {call'.arg} :
                      state'.policy_touched[q] = state.policy_touched[q]
               /\ state'.group_touched = state'.policy_touched[call'.arg]
          ELSE /\ state'.policy_touched = state.policy_touched
               /\ state'.group_touched = state.group_touched]_vars
    /\ []TouchedLatest

C24_Witness ==
    /\ call.op = "add_job" /\ raised = ""
    /\ DOMAIN state.policy_touched = {"pid", "p2"}
    /\ state.policy_touched["p2"] = Format(1)
    /\ state.policy_touched["pid"] = Format(2)
    /\ state.group_touched = Format(2)

----------------------------------------------------------------------------
(* Claims about what the GroupState methods leave alone, checked under Spec *)

\* C25: add_job, remove_job, add_active, remove_active, mark_executed and
\* get_capacity never change status, paused, suspended, desired,
\* error_reasons, tenant_id, group_id or group_name; whether they return or
\* raise depends on pending and active alone, so they return on a paused,
\* suspended, ERROR or DELETING object as on an ACTIVE one; and only
\* mark_executed changes group_touched and policy_touched.
C25_MethodsLeaveFlagsAlone ==
    [][/\ state'.status = state.status
       /\ state'.paused = state.paused
       /\ state'.suspended = state.suspended
       /\ state'.desired = state.desired
       /\ state'.error_reasons = state.error_reasons
       /\ state'.tenant_id = state.tenant_id
       /\ state'.group_id = state.group_id
       /\ state'.group_name = state.group_name
       /\ raised' = (IF AssertionFails THEN "AssertionError" ELSE "")
       /\ call'.op # "mark_executed" =>
             /\ state'.group_touched = state.group_touched
             /\ state'.policy_touched = state.policy_touched]_vars

C25_Witness ==
    /\ call.op = "remove_job" /\ raised = ""
    /\ state.status = "DELETING"
    /\ state.desired = 1
    /\ DOMAIN state.pending = {}
    /\ DOMAIN state.active = {"1", "2"}

----------------------------------------------------------------------------
(* otter/models/interface.py: next_cron_occurrence.  Time is counted in     *)
(* minutes; a cron entry is given by the minutes it matches.                *)

\* the clock of the scheduler reads minutes 0..MaxMinutes
MaxMinutes == 9

\* a cron entry that matches the minutes m with m % period = offset, such as
\* '*/2 * * * *' (every 2 minutes) or '1-59/2 * * * *' (the odd minutes)
CronEntry(text, period, offset) == [text |-> text, period |-> period, offset |-> offset]

CronEntries == {CronEntry("* * * * *", 1, 0),
                CronEntry("*/2 * * * *", 2, 0),
                CronEntry("1-59/2 * * * *", 2, 1),
                CronEntry("*/3 * * * *", 3, 0)}

Matches(cron, minute) == minute % cron.period = cron.offset

\* croniter(cron, start_time).get_next(): the first minute after start_time
\* that the entry matches
croniter_get_next(cron, start_time) ==
    CHOOSE t \in (start_time + 1)..(start_time + cron.period) :
        /\ Matches(cron, t)
        /\ \A u \in (start_time + 1)..(t - 1) : ~Matches(cron, u)

\* mutant: the occurrence at the current time itself is taken when there is one
next_cron_occurrence_or_now(cron, utcnow) == croniter_get_next(cron, utcnow - 1)

\* next_cron_occurrence(cron), where datetime.utcnow() reads `utcnow`
next_cron_occurrence(cron, utcnow) == croniter_get_next(cron, utcnow)

\* A cron event of the scheduler: it is due at trigger_time, is dequeued at
\* or after that time, and is then scheduled again at the next occurrence.
InitCron ==
    /\ IdleCore
    /\ IdleStore
    /\ IdleSchedule
    /\ IdleCapability
    /\ details_calls = << >>
    /\ code_call = << >>
    /\ walk = << >>
    /\ \E cron \in CronEntries :
          cron_call = [cron |-> cron, utcnow |-> 0,
                       trigger_time |-> croniter_get_next(cron, 0),
                       dequeued |-> << >>]

\* time passes
CronTick ==
    /\ cron_call.utcnow < MaxMinutes
    /\ cron_call' = [cron_call EXCEPT !.utcnow = @ + 1]
    /\ UNCHANGED <<gsvars, prvars, upvars, lkvars, stvars, scvars, cpvars,
                   details_calls, code_call, walk>>

\* the event is dequeued, on time or late, and scheduled again; `dequeued`
\* records the time of the call and the trigger time the event had
RescheduleCron ==
    /\ cron_call.utcnow >= cron_call.trigger_time
    /\ cron_call' = [cron_call EXCEPT
                        !.trigger_time = next_cron_occurrence(cron_call.cron,
                                                              cron_call.utcnow),
                        !.dequeued = <<cron_call.utcnow, cron_call.trigger_time>>]
    /\ UNCHANGED <<gsvars, prvars, upvars, lkvars, stvars, scvars, cpvars,
                   details_calls, code_call, walk>>

NextCron ==
    \/ CronTick
    \/ RescheduleCron

SpecCron == InitCron /\ [][NextCron]_vars

----------------------------------------------------------------------------
(* Claims about next_cron_occurrence, checked under SpecCron *)

\* the step is a call of next_cron_occurrence
Rescheduled == cron_call'.trigger_time # cron_call.trigger_time

\* C26: next_cron_occurrence(cron) returns the earliest instant the entry
\* matches that is strictly later than the current time at the call, whatever
\* the trigger time the event had: for an event dequeued late, the one
\* occurrence produced is in the future and every occurrence between the
\* event's trigger time and the current time is skipped.
C26_NextOccurrenceAfterNow ==
    [][Rescheduled =>
          LET now == cron_call.utcnow
              next == cron_call'.trigger_time
          IN  /\ next > now
              /\ Matches(cron_call.cron, next)
              /\ \A t \in (now + 1)..(next - 1) : ~Matches(cron_call.cron, t)
              /\ \A t \in cron_call.trigger_time..now : next # t]_vars

C26_Witness ==
    /\ cron_call.cron.period = 2
    /\ cron_call.dequeued = <<7, 2>>
    /\ cron_call.trigger_time = 8

----------------------------------------------------------------------------
(* Further claims about UpstreamError, checked under SpecUpstream *)

\* what a call of details() returned holds system, operation and url, does
\* not hold the wrapped error, and holds the code, body and headers of the
\* wrapped APIError, or none of the three keys when another failure is wrapped
DetailsOf(d) ==
    /\ {"system", "operation", "url"} \subseteq DOMAIN d
    /\ d["system"] = upstream_args.system
    /\ d["operation"] = upstream_args.operation
    /\ d["url"] = upstream_args.url
    /\ "error" \notin DOMAIN d
    /\ IF upstream_args.error.type = "APIError"
       THEN /\ {"code", "body", "headers"} \subseteq DOMAIN d
            /\ d["code"] = upstream_args.error.code
            /\ d["body"] = upstream_args.error.body
            /\ d["headers"] = upstream_args.error.headers
       ELSE {"code", "body", "headers"} \cap DOMAIN d = {}

DetailsRepeatable ==
    /\ \A i \in 1..Len(details_calls) : DetailsOf(details_calls[i])
    /\ Len(details_calls) = 2 => details_calls[1] = details_calls[2]

\* C27: details() returns a mapping with system, operation and url, without
\* the wrapped error, and with the code, body and headers of the wrapped
\* APIError exactly when the wrapped failure is an APIError; the call does not
\* change the UpstreamError, and two successive calls return equal mappings.
C27_Details ==
    /\ []DetailsRepeatable
    /\ [][details_calls' # details_calls => upstream' = upstream]_vars

C27_Witness ==
    /\ Len(details_calls) = 2
    /\ upstream_args.error.type = "APIError"
    /\ upstream_args.url # PyNone
    /\ details_calls[2]["code"] = PyInt(404)
    /\ details_calls[2]["apierr_message"] = PyText("gone")

\* C28: raise_error_on_code always raises: the given error when the failure
\* is an APIError whose code is the given code, UpstreamError carrying system,
\* operation and url when the failure is an APIError with another code, and
\* the failure itself when it is not an APIError.
C28_AlwaysRaisesTheRightError ==
    code_call # << >> =>
        LET f == upstream_args.error
            o == code_call.outcome
        IN  /\ o.raised # ""
            /\ (f.type = "APIError" /\ f.code = PyInt(code_call.code)) =>
                  o.raised = code_call.error
            /\ (f.type = "APIError" /\ f.code # PyInt(code_call.code)) =>
                  /\ o.raised = "UpstreamError"
                  /\ o.value.self.system = upstream_args.system
                  /\ o.value.self.operation = upstream_args.operation
                  /\ o.value.self.url = upstream_args.url
            /\ f.type # "APIError" => (o.raised = f.type /\ o.value = f)

----------------------------------------------------------------------------
(* Further claims about get_autoscale_links, checked under SpecAutoscale *)

\* the self URL of a result: the href of the 'self' link, or the text
SelfUrl(v) == IF v.type = "list" THEN v.items[1].href ELSE v.text

\* the path the ids of a call name, below .../groups
IdPath(a) ==
    IF a.group_id = PyNone THEN ""
    ELSE "/" \o a.group_id.text \o
         (IF a.policy_id = PyNone THEN ""
          ELSE "/policies/" \o a.policy_id.text \o
               (IF a.webhook_id = PyNone THEN ""
                ELSE "/webhooks/" \o a.webhook_id.text))

EndsWith(s, c) == Len(s) > 0 /\ SubSeq(s, Len(s), Len(s)) = c

\* C29: the self URL is url_root/v<api_version>/<tenant_id>/groups, followed
\* by the group id only when one is given, by policies/<policy_id> only when
\* group and policy ids are given, by webhooks/<webhook_id> only when all
\* three are given; and for every combination of ids, a blank last id
\* included, it ends with exactly one '/'.
C29_SelfUrl ==
    (links # NotCalled) =>
        LET a == links_args
            named == UrlRoot \o "/v" \o a.api_version \o "/" \o a.tenant_id
                     \o "/groups" \o IdPath(a)
            url == SelfUrl(links.value)
        IN  /\ url = (IF EndsWith(named, "/") THEN named ELSE named \o "/")
            /\ EndsWith(url, "/")
            /\ ~EndsWith(SubSeq(url, 1, Len(url) - 1), "/")

C29_Witness ==
    /\ links # NotCalled
    /\ links_args.group_id = PyStr("g1")
    /\ links_args.policy_id = PyStr("")
    /\ links_args.webhook_id = PyNone
    /\ links_args.format = PyNone
    /\ links.value = PyStr("http://otter.example/v1.0/t1/groups/g1/policies/")

====
